---- MODULE Spec2Model ----
(***************************************************************************)
(* State-machine model of the ACP session core of sled: the JSON-RPC       *)
(* Protocol Session (app/src/agentProtocolSession.ts), the Chat Session    *)
(* built on it (app/src/chatSession.ts), the sentence detector it calls,   *)
(* and the chat WebSocket handler of the ClaudeContainer durable object    *)
(* that owns the permission table.                                         *)
(*                                                                         *)
(* Text is modelled as tuples of one-character strings, request ids as     *)
(* tuples <<prefix, n>> where n is the value createId returned, and the    *)
(* objects as records whose fields carry the names of the source.  Every   *)
(* method of the source is an operator from a "world" record (the fields   *)
(* of both session objects plus the transport) to the world it leaves.     *)
(***************************************************************************)
EXTENDS Integers, Sequences, FiniteSets, TLC

VARIABLES proto, chat, env, op, hist, host, bridge, detector, demo, manager, proxy

vars == <<proto, chat, env, op, hist, host, bridge, detector, demo, manager, proxy>>

--------------------------------------------------------------------------
(* Bounds of the model                                                     *)

MaxTurns == 2
MaxSteps == 6
MaxFailures == 1
MaxUpdates == 3
MaxPermissions == 1
MaxConnections == 2
MaxReplays == 1
MaxModeChanges == 1
MaxCancels == 2

--------------------------------------------------------------------------
(* Characters and strings                                                  *)

UpperSeq == <<"A","B","C","D","E","F","G","H","I","J","K","L","M",
              "N","O","P","Q","R","S","T","U","V","W","X","Y","Z">>
LowerSeq == <<"a","b","c","d","e","f","g","h","i","j","k","l","m",
              "n","o","p","q","r","s","t","u","v","w","x","y","z">>
Digits == {"0","1","2","3","4","5","6","7","8","9"}

Range(s) == { s[i] : i \in DOMAIN s }
IsUpper(c) == c \in Range(UpperSeq)
IsLower(c) == c \in Range(LowerSeq)
IsLetter(c) == IsUpper(c) \/ IsLower(c)
IsDigit(c) == c \in Digits
IsSpace(c) == c \in {" ", "\n", "\t", "\r"}

ToLowerChar(c) ==
  IF IsUpper(c) THEN LowerSeq[CHOOSE i \in DOMAIN UpperSeq : UpperSeq[i] = c] ELSE c
ToLower(s) == [i \in DOMAIN s |-> ToLowerChar(s[i])]

Min(a, b) == IF a < b THEN a ELSE b
Max(a, b) == IF a > b THEN a ELSE b

\* s.slice(from0, to0) of JavaScript, with 0-based bounds, end exclusive
Slice(s, from0, to0) == SubSeq(s, Max(from0, 0) + 1, Min(to0, Len(s)))

\* s.trim()
Trim(s) ==
  LET keep == { i \in DOMAIN s : ~IsSpace(s[i]) }
  IN IF keep = {} THEN <<>>
     ELSE SubSeq(s, CHOOSE i \in keep : \A j \in keep : i <= j,
                    CHOOSE i \in keep : \A j \in keep : i >= j)

StartsWithAt(s, i, p) == i >= 1 /\ i + Len(p) - 1 <= Len(s) /\ SubSeq(s, i, i + Len(p) - 1) = p

\* s.includes(p)
Includes(s, p) == \E i \in 1..(Len(s) + 1) : StartsWithAt(s, i, p)

RECURSIVE Join(_, _)
\* parts.join(sep)
Join(parts, sep) ==
  IF Len(parts) = 0 THEN <<>>
  ELSE IF Len(parts) = 1 THEN parts[1]
  ELSE parts[1] \o sep \o Join(Tail(parts), sep)

--------------------------------------------------------------------------
(* Sentence detector                                                       *)

COMMON_ABBREVIATIONS ==
  { <<"m","r">>, <<"m","r","s">>, <<"m","s">>, <<"d","r">>,
    <<"p","r","o","f">>, <<"s","r">>, <<"j","r">>, <<"v","s">>,
    <<"e","t","c">>, <<"i","n","c">>, <<"l","t","d">>, <<"c","o">>,
    <<"s","t">>, <<"a","v","e">>, <<"b","l","v","d">>, <<"r","d">>,
    <<"j","a","n">>, <<"f","e","b">>, <<"m","a","r">>, <<"a","p","r">>,
    <<"j","u","n">>, <<"j","u","l">>, <<"a","u","g">>, <<"s","e","p">>,
    <<"o","c","t">>, <<"n","o","v">>, <<"d","e","c">>, <<"e",".","g">>,
    <<"i",".","e">>, <<"c","f">>, <<"a","l">>, <<"e","t">>,
    <<"n","o">>, <<"v","o","l">>, <<"p","p">>, <<"f","i","g">>,
    <<"a","p","p","r","o","x">>, <<"d","e","p","t">>, <<"e","s","t">>, <<"g","o","v","t">>,
    <<"m","i","s","c">>, <<"r","e","f">> }

\* the backquote character (the TLA+ lexer accepts none inside a string)
Backquote == "bq"
Fence == <<Backquote, Backquote, Backquote>>

\* the test of unclosedPattern, a fence followed by no backquote up to the end
hasUnclosedBlock(text) ==
  \E i \in DOMAIN text :
     /\ StartsWithAt(text, i, Fence)
     /\ \A k \in (i + 3)..Len(text) : text[k] # Backquote

RECURSIVE ReplaceBlocks(_, _)
\* text.replace(codeBlockPattern, " ") from position i on
ReplaceBlocks(text, i) ==
  IF i > Len(text) THEN <<>>
  ELSE LET closers == { k \in (i + 3)..Len(text) : StartsWithAt(text, k, Fence) }
       IN IF StartsWithAt(text, i, Fence) /\ closers # {}
          THEN LET k == CHOOSE c \in closers : \A d \in closers : c <= d
               IN <<" ">> \o ReplaceBlocks(text, k + 3)
          ELSE <<text[i]>> \o ReplaceBlocks(text, i + 1)

stripCodeBlocks(text) ==
  [cleaned |-> ReplaceBlocks(text, 1), hasUnclosedBlock |-> hasUnclosedBlock(text)]

\* /^[a-z](\.[a-z])+$/i.test(s)
MatchesDottedInitials(s) ==
  /\ Len(s) >= 3
  /\ Len(s) % 2 = 1
  /\ \A i \in DOMAIN s : IF i % 2 = 1 THEN IsLetter(s[i]) ELSE s[i] = "."

\* p is the 1-based position of the period
isAbbreviation(text, p) ==
  LET stops == { i \in 1..(p - 1) : ~(IsLetter(text[i]) \/ text[i] = ".") }
      wordStart == IF stops = {} THEN 1 ELSE (CHOOSE i \in stops : \A j \in stops : i >= j) + 1
      word == ToLower(SubSeq(text, wordStart, p - 1))
  IN \/ word \in COMMON_ABBREVIATIONS
     \/ (Len(word) = 1 /\ IsLetter(word[1]))
     \/ MatchesDottedInitials(word \o <<".">>)

isDecimalNumber(text, p) ==
  /\ p > 1 /\ IsDigit(text[p - 1])
  /\ p < Len(text) /\ IsDigit(text[p + 1])

\* /prefix\S*$/.test(s)
EndsWithRun(s, prefix) ==
  \E i \in DOMAIN s :
     /\ StartsWithAt(s, i, prefix)
     /\ \A k \in (i + Len(prefix))..Len(s) : ~IsSpace(s[k])

isUrlOrPath(text, p) ==
  LET beforeText == Slice(text, (p - 1) - 50, p - 1)
      afterText == Slice(text, p, p + 5)
      lens == { n \in 2..4 : n <= Len(afterText) /\ \A i \in 1..n : IsLetter(afterText[i]) }
      ext == { n \in lens : Len(afterText) = n \/ IsSpace(afterText[n + 1]) }
      m == CHOOSE n \in lens : \A k \in lens : n >= k
  IN \/ EndsWithRun(beforeText, <<"h","t","t","p",":","/","/">>)
     \/ EndsWithRun(beforeText, <<"h","t","t","p","s",":","/","/">>)
     \/ EndsWithRun(beforeText, <<"w","w","w",".">>)
     \/ (ext # {} /\ p + m < Len(text) /\ ~IsSpace(text[p + m + 1]))

\* t is the 1-based position of the terminator
isValidBoundary(text, t) ==
  LET after == t + 1
      rest == { i \in (after + 1)..Len(text) : ~IsSpace(text[i]) }
      nextNonSpace == CHOOSE i \in rest : \A j \in rest : i <= j
  IN IF after > Len(text) THEN FALSE
     ELSE IF ~IsSpace(text[after])
          THEN /\ text[after] \in {"\"", "'", ")", "]"}
               /\ after + 1 <= Len(text)
               /\ IsSpace(text[after + 1])
          ELSE /\ rest # {}
               /\ (IsUpper(text[nextNonSpace]) \/ text[nextNonSpace] \in {"\"", "'", "(", "["})

RECURSIVE ScanTerminators(_, _, _, _)
\* the while loop of extractSentences: from is the regexp's lastIndex + 1,
\* lastSentenceEnd the 0-based end of the last sentence taken
ScanTerminators(cleaned, from, lastSentenceEnd, sentences) ==
  LET hits == { i \in from..Len(cleaned) : cleaned[i] \in {".", "!", "?"} }
  IN IF hits = {} THEN [sentences |-> sentences, lastSentenceEnd |-> lastSentenceEnd]
     ELSE
       LET p == CHOOSE i \in hits : \A j \in hits : i <= j
       IN IF cleaned[p] = "." /\ Slice(cleaned, p - 1, p + 2) = <<".", ".", ".">>
          THEN LET sentence == Trim(Slice(cleaned, lastSentenceEnd, p + 2))
               IN IF isValidBoundary(cleaned, p + 2) /\ Len(sentence) > 0
                  THEN ScanTerminators(cleaned, p + 3, p + 2, Append(sentences, sentence))
                  ELSE ScanTerminators(cleaned, p + 3, lastSentenceEnd, sentences)
          ELSE IF cleaned[p] = "." /\ (isAbbreviation(cleaned, p) \/ isDecimalNumber(cleaned, p)
                                        \/ isUrlOrPath(cleaned, p))
          THEN ScanTerminators(cleaned, p + 1, lastSentenceEnd, sentences)
          ELSE LET sentence == Trim(Slice(cleaned, lastSentenceEnd, p))
               IN IF isValidBoundary(cleaned, p) /\ Len(sentence) > 0
                  THEN ScanTerminators(cleaned, p + 1, p, Append(sentences, sentence))
                  ELSE ScanTerminators(cleaned, p + 1, lastSentenceEnd, sentences)

extractSentences(text) ==
  IF Len(Trim(text)) = 0 THEN [sentences |-> <<>>, remainder |-> text]
  ELSE LET stripped == stripCodeBlocks(text)
       IN IF stripped.hasUnclosedBlock THEN [sentences |-> <<>>, remainder |-> text]
          ELSE LET scan == ScanTerminators(stripped.cleaned, 1, 0, <<>>)
               IN [sentences |-> scan.sentences,
                   remainder |-> Trim(Slice(text, scan.lastSentenceEnd, Len(text)))]

\* The sentence detector before a text is handed to it, and after: text is the
\* argument of extractSentences, result what the call returned.
Detector0 == [text |-> <<>>, applied |-> FALSE, sentences |-> <<>>, remainder |-> <<>>]

--------------------------------------------------------------------------
(* Values shared by the two session objects                                *)

\* null for request ids, message ids and segment ids
NoId == <<>>
\* undefined and null for string-valued fields that keep them apart
UndefinedV == <<"undefined">>
NullV == <<"null">>

\* the objects a call works on; demo is the closure of createDemoHandshake
World == [proto |-> proto, chat |-> chat, env |-> env, demo |-> demo]

\* One observable effect of a step: a frame handed to sendUpstream (k = "send"),
\* a callback of AgentProtocolSessionOptions being invoked (k = "cb"), a
\* callback of ChatSessionOptions being invoked (k = "ui"), a snippet pushed
\* (k = "snippet"), or a note of which private method ran (k = "note").
Ev(k, name, id, nid, arg, turn, text, ok) ==
  [k |-> k, name |-> name, id |-> id, nid |-> nid, arg |-> arg, turn |-> turn,
   text |-> text, ok |-> ok]

Emit(w, e) == [w EXCEPT !.env.out = Append(@, e)]
Cb(w, name, id, arg) == Emit(w, Ev("cb", name, id, -1, arg, 0, <<>>, TRUE))
Ui(w, name, arg, turn, text) == Emit(w, Ev("ui", name, NoId, -1, arg, turn, text, TRUE))
Note(w, name, turn, text) == Emit(w, Ev("note", name, NoId, -1, "", turn, text, TRUE))

\* this.pushSnippet(render...(…, id))
pushSnippet(w, name, id, turn, text) ==
  Emit(w, Ev("snippet", name, id, -1, "", turn, text, TRUE))

\* The transport: the next call of sendUpstream throws iff the head of the
\* step's failure schedule says so.  Every frame handed over is logged.
sendUpstream(w, method, id, nid, arg, text) ==
  LET throws == Len(w.env.fs) > 0 /\ Head(w.env.fs)
      e == Ev("send", method, id, nid, arg, 0, text, ~throws)
  IN [w EXCEPT !.env.fs = IF Len(@) > 0 THEN Tail(@) ELSE @,
               !.env.wire = Append(@, e),
               !.env.out = Append(@, e)]

LastSendOk(w) == w.env.wire[Len(w.env.wire)].ok

\* `${prefix}-${this.createId()}` is <<prefix, w.env.nextId>>; the caller advances nextId
TakeId(w) == [w EXCEPT !.env.nextId = @ + 1]

\* this.errorId()
errorId(w) == [w |-> TakeId(w), r |-> <<"error", w.env.nextId>>]

pushError(w, name, turn) ==
  LET e == errorId(w) IN pushSnippet(e.w, name, e.r, turn, <<>>)

--------------------------------------------------------------------------
(* Chat Session: private helpers                                           *)

SetState(w, t, st) == [w EXCEPT !.chat.promptStates[t] = st]

\* index of the first state that is not completed, 0 for undefined
getActivePromptState(w) ==
  LET open == { i \in DOMAIN w.chat.promptStates : ~w.chat.promptStates[i].completed }
  IN IF open = {} THEN 0 ELSE CHOOSE i \in open : \A j \in open : i <= j

getMostRecentPromptState(w) == Len(w.chat.promptStates)

findStateByAgentMessageId(w, agentMessageId) ==
  LET hit == { i \in DOMAIN w.chat.promptStates :
                 w.chat.promptStates[i].agentMessageId = agentMessageId }
  IN IF hit = {} THEN 0 ELSE CHOOSE i \in hit : \A j \in hit : i <= j

\* index of the segment whose id is segId in state t, 0 for undefined
FindSegment(w, t, segId) ==
  LET segs == w.chat.promptStates[t].textSegments
      hit == { i \in DOMAIN segs : segs[i].id = segId }
  IN IF hit = {} THEN 0 ELSE CHOOSE i \in hit : \A j \in hit : i <= j

FindTool(w, t, toolCallId) ==
  LET tools == w.chat.promptStates[t].toolMessages
      hit == { i \in DOMAIN tools : tools[i].key = toolCallId }
  IN IF hit = {} THEN 0 ELSE CHOOSE i \in hit : \A j \in hit : i <= j

appendSegment(existing, addition) ==
  IF Len(existing) = 0 THEN addition
  ELSE IF Len(addition) = 0 THEN existing
  ELSE existing \o addition

joinContent(parts) ==
  IF Len(parts) = 0 THEN <<>>
  ELSE IF Len(parts) = 1 THEN parts[1]
  ELSE Join(parts, <<>>)

\* A block of content: [t |-> "null"], [t |-> "string", v], a text block
\* {type: "text", text: v}, a wrapper {type: "content", content: items[1]},
\* an array of blocks, or some other value.
readTextBlock(block) ==
  IF block.t = "text" THEN block.v ELSE NullV

RECURSIVE Flatten(_)
Flatten(lists) ==
  IF Len(lists) = 0 THEN <<>> ELSE Head(lists) \o Flatten(Tail(lists))

RECURSIVE collectTextContent(_)
collectTextContent(value) ==
  CASE value.t = "null" -> <<>>
    [] value.t = "string" -> <<value.v>>
    [] value.t = "array" ->
         Flatten([i \in DOMAIN value.items |-> collectTextContent(value.items[i])])
    [] value.t = "content" -> collectTextContent(value.items[1])
    [] value.t = "text" ->
         LET text == readTextBlock(value)
         IN IF text # NullV /\ Len(text) > 0 THEN <<text>> ELSE <<>>
    [] OTHER -> <<>>

isTerminalToolStatus(status) ==
  IF status \in {UndefinedV, NullV, <<>>} THEN FALSE
  ELSE LET lower == ToLower(status)
       IN \/ Includes(lower, <<"c","o","m","p","l","e","t","e">>)
          \/ Includes(lower, <<"s","u","c","c","e","s","s">>)
          \/ Includes(lower, <<"d","o","n","e">>)
          \/ Includes(lower, <<"f","a","i","l">>)
          \/ Includes(lower, <<"e","r","r","o","r">>)
          \/ Includes(lower, <<"c","a","n","c","e","l">>)

\* typeof v === "string" && v.length > 0 ? v : null, for a field read from a message
readNullableString(v) == IF v \in {UndefinedV, NullV, <<>>} THEN NullV ELSE v

hideSystemNoticeIfNeeded(w, t) ==
  LET st == w.chat.promptStates[t]
  IN IF st.noticeCleared THEN w
     ELSE IF Len(Trim(st.thoughtContent)) > 0 THEN w
     ELSE SetState(pushSnippet(w, "hidden", st.systemMessageId, t, <<>>), t,
                   [st EXCEPT !.noticeCleared = TRUE])

\* this.onSentenceReady?.(sentence) inside try/catch
onSentenceReady(w, t, sentence, from) == Ui(w, "onSentenceReady", from, t, sentence)

RECURSIVE EmitSentences(_, _, _, _)
\* the for loop of processSentenceBuffer from index i (1-based)
EmitSentences(w, t, sentences, i) ==
  IF i > Len(sentences) THEN w
  ELSE LET sentence == Trim(sentences[i])
           w1 == IF Len(sentence) > 0 THEN onSentenceReady(w, t, sentence, "process") ELSE w
       IN EmitSentences(w1, t, sentences, i + 1)

processSentenceBuffer(w, t) ==
  LET buf == w.chat.promptStates[t].sentenceBuffer
      got == extractSentences(buf.raw)
      w1 == EmitSentences(w, t, got.sentences, buf.sentencesSent + 1)
  IN [w1 EXCEPT !.chat.promptStates[t].sentenceBuffer =
                  [raw |-> got.remainder, sentencesSent |-> Len(got.sentences)]]

\* a flush that speaks what is left and keeps it in the buffer
flushSentenceBufferKept(w, t) ==
  LET remaining == Trim(w.chat.promptStates[t].sentenceBuffer.raw)
      w0 == Note(w, "flushSentenceBuffer", t, <<>>)
  IN IF Len(remaining) > 0 THEN onSentenceReady(w0, t, remaining, "flush") ELSE w0

flushSentenceBuffer(w, t) ==
  LET remaining == Trim(w.chat.promptStates[t].sentenceBuffer.raw)
      w0 == Note(w, "flushSentenceBuffer", t, <<>>)
      w1 == IF Len(remaining) > 0 THEN onSentenceReady(w0, t, remaining, "flush") ELSE w0
  IN [w1 EXCEPT !.chat.promptStates[t].sentenceBuffer = [raw |-> <<>>, sentencesSent |-> 0]]

\* this.onWorkingStateChange?.(isWorking, toolCall)
onWorkingStateChange(w, isWorking, turn) ==
  Ui(w, "onWorkingStateChange", IF isWorking THEN "true" ELSE "false", turn, <<>>)

finalizeCancelledState(w, t) ==
  LET st == w.chat.promptStates[t]
  IN IF st.cancelNoticeShown THEN w
     ELSE LET w1 == SetState(w, t, [st EXCEPT !.cancelled = TRUE,
                                              !.cancelNoticeShown = TRUE,
                                              !.completed = TRUE])
              w2 == pushSnippet(w1, "hidden", st.systemMessageId, t, <<>>)
              w3 == [w2 EXCEPT !.chat.promptStates[t].noticeCleared = TRUE,
                               !.chat.currentToolCallTitle = ""]
              w4 == onWorkingStateChange(w3, FALSE, t)
          IN pushSnippet(w4, "cancelled", NoId, t, <<>>)

RECURSIVE CancelTools(_, _, _, _)
\* the for loop of cancelActiveToolCalls from entry i on; latest is the index
\* of latestTool, 0 for null
CancelTools(w, t, i, latest) ==
  LET tools == w.chat.promptStates[t].toolMessages
  IN IF i > Len(tools) THEN [w |-> w, r |-> latest]
     ELSE IF isTerminalToolStatus(tools[i].status) THEN CancelTools(w, t, i + 1, latest)
     ELSE LET w1 == [w EXCEPT !.chat.promptStates[t].toolMessages[i].status =
                                 <<"c","a","n","c","e","l","l","e","d">>]
              w2 == pushSnippet(w1, "toolUpdate", tools[i].id, t, <<>>)
          IN CancelTools(w2, t, i + 1, i)

\* a cancelPrompt that leaves the tool calls of the turn as they are
cancelActiveToolCallsSkipped(w) == w

cancelActiveToolCalls(w) ==
  LET t == getActivePromptState(w)
  IN IF t = 0 \/ Len(w.chat.promptStates[t].toolMessages) = 0 THEN w
     ELSE LET done == CancelTools(w, t, 1, 0)
          IN IF done.r # 0
             THEN onWorkingStateChange(
                    [done.w EXCEPT !.chat.currentToolCallTitle =
                                     done.w.chat.promptStates[t].toolMessages[done.r].title],
                    TRUE, t)
             ELSE done.w

appendOrphanAgentMessage(w, addition) ==
  LET fresh == w.chat.orphanMessageId = NoId
      w1 == IF fresh
            THEN pushSnippet([TakeId(w) EXCEPT !.chat.orphanMessageId = <<"agent", w.env.nextId>>,
                                              !.chat.orphanMessageContent = <<>>],
                             "agentMessage", <<"agent", w.env.nextId>>, 0, <<>>)
            ELSE w
      w2 == [w1 EXCEPT !.chat.orphanMessageContent = appendSegment(@, addition)]
  IN pushSnippet(w2, "agentUpdate", w2.chat.orphanMessageId, 0, w2.chat.orphanMessageContent)

clearOrphanAgentMessage(w) ==
  [w EXCEPT !.chat.orphanMessageId = NoId, !.chat.orphanMessageContent = <<>>]

--------------------------------------------------------------------------
(* Chat Session: session updates                                           *)

handleAgentMessageChunk(w, t, update) ==
  LET addition == joinContent(collectTextContent(update.content))
  IN IF Len(addition) = 0 THEN w
     ELSE IF t = 0 THEN appendOrphanAgentMessage(w, addition)
     ELSE
       LET w1 == clearOrphanAgentMessage(w)
           segId == <<"segment", w1.env.nextId>>
           w2 == IF w1.chat.promptStates[t].currentSegmentId = NoId
                 THEN pushSnippet(
                        [TakeId(w1) EXCEPT
                           !.chat.promptStates[t].textSegments =
                              Append(@, [id |-> segId, content |-> <<>>, isClosed |-> FALSE]),
                           !.chat.promptStates[t].currentSegmentId = segId],
                        "agentMessage", segId, t, <<>>)
                 ELSE w1
           cur == FindSegment(w2, t, w2.chat.promptStates[t].currentSegmentId)
           w3 == IF cur # 0
                 THEN LET w3a == [w2 EXCEPT !.chat.promptStates[t].textSegments[cur].content =
                                               appendSegment(@, addition)]
                      IN pushSnippet(w3a, "agentUpdate",
                                     w3a.chat.promptStates[t].textSegments[cur].id, t,
                                     w3a.chat.promptStates[t].textSegments[cur].content)
                 ELSE w2
           w4 == [w3 EXCEPT !.chat.promptStates[t].agentContent = appendSegment(@, addition),
                            !.chat.promptStates[t].sentenceBuffer.raw = appendSegment(@, addition)]
           w5 == processSentenceBuffer(Note(w4, "chunk", t, addition), t)
       IN hideSystemNoticeIfNeeded(w5, t)

handleAgentThoughtChunk(w, t, update) ==
  IF t = 0 THEN w
  ELSE LET addition == joinContent(collectTextContent(update.content))
       IN IF Len(addition) = 0 THEN w
          ELSE LET w1 == [w EXCEPT !.chat.promptStates[t].thoughtContent =
                                      appendSegment(@, addition)]
                   w2 == pushSnippet(w1, "thoughtUpdate", w1.chat.promptStates[t].systemMessageId,
                                     t, Trim(w1.chat.promptStates[t].thoughtContent))
               IN [w2 EXCEPT !.chat.promptStates[t].noticeCleared = TRUE]

\* this.onToolCall?.({toolCallId, title, status, kind, content}) inside try/catch
onToolCall(w, t, toolCallId, status) ==
  Emit(w, Ev("ui", "onToolCall", NoId, -1, toolCallId, t, status, TRUE))

\* a new tool call that leaves the text segment before it open
keepCurrentSegment(w, t) == w

\* the current text segment is closed when a new tool call starts
closeCurrentSegment(w, t) ==
  LET st == w.chat.promptStates[t]
      cur == FindSegment(w, t, st.currentSegmentId)
  IN IF st.currentSegmentId # NoId
     THEN [w EXCEPT !.chat.promptStates[t].textSegments =
                       IF cur # 0 THEN [@ EXCEPT ![cur].isClosed = TRUE] ELSE @,
                    !.chat.promptStates[t].currentSegmentId = NoId]
     ELSE w

handleToolCallUpdate(w, t, update) ==
  IF t = 0 THEN w
  ELSE IF update.toolCallId = ""
  THEN pushError(w, "error:Tool call update missing toolCallId.", t)
  ELSE
    LET toolCallId == update.toolCallId
        found == FindTool(w, t, toolCallId)
        title == update.title
        statusValue == IF update.statusDefined THEN readNullableString(update.status) ELSE UndefinedV
        kindValue == IF update.kindDefined THEN readNullableString(update.kind) ELSE UndefinedV
        contentValue == IF update.contentDefined THEN collectTextContent(update.content) ELSE <<>>
    IN IF found = 0
       THEN
         LET w1 == closeCurrentSegment(w, t)
             w2 == flushSentenceBuffer(w1, t)
             toolState == [key |-> toolCallId,
                           id |-> <<"tool", w2.env.nextId>>,
                           title |-> IF title # "" THEN title ELSE "Tool call",
                           status |-> statusValue,
                           kind |-> kindValue,
                           content |-> contentValue]
             w3 == [TakeId(w2) EXCEPT !.chat.promptStates[t].toolMessages = Append(@, toolState),
                                      !.chat.currentToolCallTitle = toolState.title]
             w4 == onWorkingStateChange(w3, TRUE, t)
         IN pushSnippet(w4, "toolCall", toolState.id, t, <<>>)
       ELSE
         LET old == w.chat.promptStates[t].toolMessages[found]
             toolState == [old EXCEPT
                             !.title = IF title # "" THEN title ELSE @,
                             !.status = IF update.statusDefined THEN statusValue ELSE @,
                             !.kind = IF update.kindDefined THEN kindValue ELSE @,
                             !.content = IF update.contentDefined THEN contentValue ELSE @]
             w1 == [w EXCEPT !.chat.promptStates[t].toolMessages[found] = toolState,
                             !.chat.currentToolCallTitle = IF title # "" THEN title ELSE @]
             w2 == onWorkingStateChange(w1, TRUE, t)
             w3 == pushSnippet(w2, "toolUpdate", toolState.id, t, <<>>)
         IN IF isTerminalToolStatus(toolState.status)
            THEN onToolCall(w3, t, toolCallId, toolState.status)
            ELSE w3

handleSessionUpdate(w, update) ==
  IF update.sessionUpdate = "" THEN w
  ELSE
    LET activeState == getActivePromptState(w)
        t == IF activeState # 0 THEN activeState ELSE getMostRecentPromptState(w)
    IN IF activeState = 0 /\ w.chat.cancelInFlight THEN w
       ELSE IF t # 0 /\ w.chat.promptStates[t].cancelled THEN w
       ELSE CASE update.sessionUpdate = "agent_message_chunk" -> handleAgentMessageChunk(w, t, update)
              [] update.sessionUpdate = "agent_thought_chunk" -> handleAgentThoughtChunk(w, t, update)
              [] update.sessionUpdate \in {"tool_call", "tool_call_update"} ->
                   handleToolCallUpdate(w, t, update)
              [] OTHER -> w

--------------------------------------------------------------------------
(* Protocol Session: operations that send one frame                        *)

setMode(w, modeId) ==
  IF w.proto.sessionId = "" THEN [w |-> w, r |-> FALSE]
  ELSE LET w1 == sendUpstream(TakeId(w), "session/set_mode", <<"setmode", w.env.nextId>>, -1,
                              modeId, <<>>)
       IN [w |-> w1, r |-> LastSendOk(w1)]

\* a session that sends session/cancel whether or not it has a session id
cancelCurrentPromptUnguarded(w) ==
  LET w1 == sendUpstream(w, "session/cancel", NoId, -1, "", <<>>)
  IN [w |-> w1, r |-> LastSendOk(w1)]

cancelCurrentPrompt(w) ==
  IF w.proto.sessionId = "" THEN [w |-> w, r |-> FALSE]
  ELSE LET w1 == sendUpstream(w, "session/cancel", NoId, -1, "", <<>>)
       IN [w |-> w1, r |-> LastSendOk(w1)]

\* outcome is "selected" (with optionId) or "cancelled"
respondToPermissionRequest(w, requestId, outcome, optionId) ==
  LET w1 == sendUpstream(w, "response", NoId, requestId, outcome, <<optionId>>)
  IN [w |-> w1, r |-> LastSendOk(w1)]

--------------------------------------------------------------------------
(* The callbacks createDemoHandshake hands to Protocol Session             *)

DEMO_PROMPT_TEXT == <<"H","e","l","l","o">>

labelForRequest(type) ==
  CASE type = "initialize" -> "demo:Sent initialize request"
    [] type = "session/new" -> "demo:Requested new session"
    [] type = "session/prompt" -> "demo:Sent demo prompt"
    [] OTHER -> "demo:Sent request"

\* if (!completed) { completed = true; options.pushSnippet(...) }
demoComplete(w, label) ==
  IF w.demo.completed THEN w
  ELSE pushSnippet([w EXCEPT !.demo.completed = TRUE], label, NoId, 0, <<>>)

demoOnRequestDispatched(w, type) ==
  IF w.demo.completed THEN w ELSE pushSnippet(w, labelForRequest(type), NoId, 0, <<>>)

demoOnInitializeError(w, why) ==
  demoComplete(w, IF why = "rpc" THEN "demo:Initialize failed"
                  ELSE "demo:Failed to send handshake step")

demoOnSessionError(w, why) ==
  demoComplete(w, IF why = "rpc" THEN "demo:New session failed"
                  ELSE "demo:Failed to send handshake step")

demoOnPromptResult(w) == demoComplete(w, "demo:Demo prompt acknowledged")

demoOnPromptError(w, why) ==
  demoComplete(w, IF why = "rpc" THEN "demo:Demo prompt failed"
                  ELSE "demo:Failed to send handshake step")

--------------------------------------------------------------------------
(* The callbacks Chat Session hands to Protocol Session                    *)

onRequestDispatched(w, type, requestId) ==
  IF w.demo.active THEN demoOnRequestDispatched(Cb(w, "onRequestDispatched", requestId, type), type) ELSE
  LET w1 == Cb(w, "onRequestDispatched", requestId, type)
  IN IF type = "initialize" THEN pushSnippet(w1, "status:Initializing", NoId, 0, <<>>) ELSE w1

\* why is "transport" for the value a send threw, "rpc" for the error of an
\* error response, and "Failed to send prompt" for the Error dispatchPrompt makes
onInitializeError(w, why) ==
  IF w.demo.active THEN demoOnInitializeError(Cb(w, "onInitializeError", NoId, why), why) ELSE
  LET w1 == Cb(w, "onInitializeError", NoId, why)
      w2 == pushSnippet(w1, "status:Initialize failed", NoId, 0, <<>>)
  IN pushError(w2, "error", 0)

onSessionError(w, why) ==
  IF w.demo.active THEN demoOnSessionError(Cb(w, "onSessionError", NoId, why), why) ELSE
  LET w1 == Cb(w, "onSessionError", NoId, why)
      w2 == pushSnippet(w1, "status:Session error", NoId, 0, <<>>)
  IN pushError(w2, "error", 0)

onPromptQueued(w, requestId) == Cb(w, "onPromptQueued", requestId, "")
onPromptSent(w, requestId) == Cb(w, "onPromptSent", requestId, "")
onResponseReceived(w, type, requestId) == Cb(w, "onResponseReceived", requestId, type)

\* a reader that never finds a stop reason
readStopReasonAbsent(result) == ""

readStopReason(result) == result.stopReason

extractContent(result) ==
  IF Len(result.content) > 0 THEN Join(result.content, <<"\n", "\n">>)
  ELSE IF Len(Trim(result.message)) > 0 THEN Trim(result.message)
  ELSE <<>>

\* t is the index of the state, 0 for undefined
normalizeAgentContent(w, t, fallback) ==
  LET aggregated == IF t # 0 THEN w.chat.promptStates[t].agentContent ELSE <<>>
  IN IF Len(Trim(aggregated)) > 0 THEN aggregated ELSE fallback

\* this.onNewMessage?.(role, content) inside try/catch
onNewMessage(w, role, turn, content) == Ui(w, "onNewMessage", role, turn, content)

\* metadata is the agentMessageId the prompt was sent with, NoId when
\* asPromptMetadata would return null
onPromptResult(w, requestId, result, metadata) ==
  IF w.demo.active THEN demoOnPromptResult(Cb(w, "onPromptResult", requestId, result.stopReason)) ELSE
  LET w0 == Cb(w, "onPromptResult", requestId, result.stopReason)
  IN IF metadata = NoId
     THEN pushError(w0, "error:Agent response missing metadata.", 0)
     ELSE
       LET t == findStateByAgentMessageId(w0, metadata)
           w1 == [w0 EXCEPT !.chat.cancelInFlight = FALSE]
       IN IF readStopReason(result) = "cancelled"
          THEN IF t # 0 /\ ~w1.chat.promptStates[t].cancelNoticeShown
               THEN finalizeCancelledState(w1, t)
               ELSE w1
          ELSE
            LET fallbackContent == extractContent(result)
                rendered == normalizeAgentContent(w1, t, fallbackContent)
                w2 == IF t = 0 THEN w1
                      ELSE
                        LET a1 == flushSentenceBuffer(w1, t)
                            st == a1.chat.promptStates[t]
                            cur == IF st.currentSegmentId # NoId
                                   THEN FindSegment(a1, t, st.currentSegmentId) ELSE 0
                            a2 == IF cur # 0
                                  THEN pushSnippet(a1, "agentUpdate", st.textSegments[cur].id, t,
                                                   st.textSegments[cur].content)
                                  ELSE IF Len(st.textSegments) = 0 /\ Len(Trim(rendered)) > 0
                                  THEN pushSnippet(TakeId(a1), "agentMessage",
                                                   <<"segment", a1.env.nextId>>, t, rendered)
                                  ELSE a1
                            a3 == [a2 EXCEPT !.chat.promptStates[t].agentContent = rendered,
                                             !.chat.promptStates[t].completed = TRUE]
                        IN hideSystemNoticeIfNeeded(a3, t)
                w3 == onWorkingStateChange([w2 EXCEPT !.chat.currentToolCallTitle = ""], FALSE, t)
            IN IF Len(Trim(rendered)) > 0 THEN onNewMessage(w3, "assistant", t, rendered) ELSE w3

onPromptError(w, requestId, why, metadata) ==
  IF w.demo.active THEN demoOnPromptError(Cb(w, "onPromptError", requestId, why), why) ELSE
  LET w0 == Cb(w, "onPromptError", requestId, why)
      t == IF metadata # NoId THEN findStateByAgentMessageId(w0, metadata) ELSE 0
      w1 == onWorkingStateChange([w0 EXCEPT !.chat.cancelInFlight = FALSE,
                                            !.chat.currentToolCallTitle = ""], FALSE, t)
  IN IF t # 0 /\ w1.chat.promptStates[t].cancelled
     THEN IF ~w1.chat.promptStates[t].cancelNoticeShown THEN finalizeCancelledState(w1, t) ELSE w1
     ELSE LET w2 == pushError(w1, "error:Agent error", t)
          IN IF t # 0
             THEN hideSystemNoticeIfNeeded(
                    hideSystemNoticeIfNeeded([w2 EXCEPT !.chat.promptStates[t].completed = TRUE], t), t)
             ELSE w2

onSessionUpdate(w, sessionId, update) ==
  IF w.demo.active THEN w ELSE
  handleSessionUpdate(Cb(w, "onSessionUpdate", NoId, update.sessionUpdate), update)

\* the options, in order, are carried in the text of the event
onPermissionRequest(w, requestId, options) ==
  IF w.demo.active THEN w ELSE
  LET w1 == Emit(w, Ev("cb", "onPermissionRequest", NoId, requestId, "", 0, options, TRUE))
  IN Emit(w1, Ev("ui", "onPermissionRequest", NoId, requestId, "", 0, options, TRUE))

--------------------------------------------------------------------------
(* Protocol Session: dispatch                                              *)

dispatchRequest(w, type, requestId, arg, text) ==
  LET w1 == onRequestDispatched(w, type, requestId)
      w2 == sendUpstream(w1, type, requestId, -1, arg, text)
  IN IF LastSendOk(w2) THEN [w |-> w2, r |-> TRUE]
     ELSE [w |-> IF type = "initialize" THEN onInitializeError(w2, "transport")
                 ELSE IF type = "session/new" THEN onSessionError(w2, "transport")
                 ELSE w2,
           r |-> FALSE]

dispatchInitialize(w) ==
  LET requestId == <<"init", w.env.nextId>>
      w1 == [TakeId(w) EXCEPT !.proto.initializeRequestId = requestId]
  IN dispatchRequest(w1, "initialize", requestId, "", <<>>).w

dispatchAuthenticate(w, methodId) ==
  LET requestId == <<"auth", w.env.nextId>>
      w1 == [TakeId(w) EXCEPT !.proto.authenticateRequestId = requestId]
  IN dispatchRequest(w1, "authenticate", requestId, methodId, <<>>).w

dispatchSessionNew(w) ==
  LET requestId == <<"session", w.env.nextId>>
      w1 == [TakeId(w) EXCEPT !.proto.sessionRequestId = requestId]
  IN dispatchRequest(w1, "session/new", requestId, w.proto.initialPermissionMode, <<>>).w

\* a session that opens the agent session although authentication is required
sessionNewWithoutLogin(w, method) == dispatchSessionNew(w)

onAuthenticationRequired(w, method) ==
  IF w.demo.active THEN w ELSE
  LET w1 == Cb(w, "onAuthenticationRequired", NoId, method.id)
      w2 == pushSnippet(w1, "status:Authentication required", NoId, 0, <<>>)
  IN pushError(w2, "error", 0)

dispatchPrompt(w, prompt) ==
  IF w.proto.sessionId = ""
  THEN [w EXCEPT !.proto.queuedPrompts = Append(@, prompt)]
  ELSE LET sent == dispatchRequest(w, "session/prompt", prompt.requestId, w.proto.sessionId,
                                   prompt.text)
       IN IF ~sent.r
          THEN onPromptError(sent.w, prompt.requestId, "Failed to send prompt", prompt.metadata)
          ELSE onPromptSent([sent.w EXCEPT !.proto.pendingPrompts = @ \cup {prompt}],
                            prompt.requestId)

RECURSIVE flushQueuedPromptsLifo(_)
\* a flush that takes the newest queued prompt first
flushQueuedPromptsLifo(w) ==
  IF w.proto.sessionId = "" THEN w
  ELSE IF Len(w.proto.queuedPrompts) = 0 THEN w
  ELSE LET n == Len(w.proto.queuedPrompts)
           prompt == w.proto.queuedPrompts[n]
           w1 == [w EXCEPT !.proto.queuedPrompts = SubSeq(@, 1, n - 1)]
       IN flushQueuedPromptsLifo(dispatchPrompt(w1, prompt))

RECURSIVE flushQueuedPrompts(_)
flushQueuedPrompts(w) ==
  IF w.proto.sessionId = "" THEN w
  ELSE IF Len(w.proto.queuedPrompts) = 0 THEN w
  ELSE LET prompt == Head(w.proto.queuedPrompts)
           w1 == [w EXCEPT !.proto.queuedPrompts = Tail(@)]
       IN flushQueuedPrompts(dispatchPrompt(w1, prompt))

\* a session whose start does not look at started
startUnguarded(w) == dispatchInitialize([w EXCEPT !.proto.started = TRUE])

start(w) ==
  IF w.proto.started THEN w
  ELSE dispatchInitialize([w EXCEPT !.proto.started = TRUE])

\* a session that queues every prompt, ready or not
sendPromptAlwaysQueued(w, text, metadata) ==
  LET trimmed == Trim(text)
      requestId == <<"prompt", w.env.nextId>>
      prompt == [requestId |-> requestId, text |-> trimmed, metadata |-> metadata]
  IN IF Len(trimmed) = 0 THEN [w |-> w, r |-> NoId]
     ELSE LET w1 == [TakeId(w) EXCEPT !.proto.queuedPrompts = Append(@, prompt)]
          IN [w |-> start(onPromptQueued(w1, requestId)), r |-> requestId]

\* returns the request id, NoId for null
sendPrompt(w, text, metadata) ==
  LET trimmed == Trim(text)
      requestId == <<"prompt", w.env.nextId>>
      prompt == [requestId |-> requestId, text |-> trimmed, metadata |-> metadata]
  IN IF Len(trimmed) = 0 THEN [w |-> w, r |-> NoId]
     ELSE IF ~w.proto.initializationComplete \/ w.proto.sessionId = ""
     THEN LET w1 == [TakeId(w) EXCEPT !.proto.queuedPrompts = Append(@, prompt)]
          IN [w |-> start(onPromptQueued(w1, requestId)), r |-> requestId]
     ELSE [w |-> dispatchPrompt(TakeId(w), prompt), r |-> requestId]

\* a handshake that sends its prompt whenever the session reports ready
demoSendPromptAlways(w) ==
  sendPrompt([w EXCEPT !.demo.promptSent = TRUE], DEMO_PROMPT_TEXT, NoId).w

\* if (!promptSent) { promptSent = true; session.sendPrompt(DEMO_PROMPT_TEXT) }
demoSendPrompt(w) ==
  IF w.demo.promptSent THEN w
  ELSE sendPrompt([w EXCEPT !.demo.promptSent = TRUE], DEMO_PROMPT_TEXT, NoId).w

\* the onSessionReady of createDemoHandshake; options.onSessionReady may throw
demoOnSessionReady(w, sessionId) ==
  IF w.demo.completed THEN w
  ELSE IF w.demo.readyThrows
  THEN pushSnippet([w EXCEPT !.demo.completed = TRUE], "demo:Session ready callback failed",
                   NoId, 0, <<>>)
  ELSE demoSendPrompt(Ui(w, "onSessionReady", sessionId, 0, <<>>))

\* an onSessionReady that does not forward the remembered mode
onSessionReadyWithoutMode(w, sessionId) ==
  LET w1 == Cb(w, "onSessionReady", NoId, sessionId)
      w2 == pushSnippet(w1, "status:Connected", NoId, 0, <<>>)
  IN Ui(w2, "onSessionReady", sessionId, 0, <<>>)

onSessionReady(w, sessionId) ==
  IF w.demo.active THEN demoOnSessionReady(Cb(w, "onSessionReady", NoId, sessionId), sessionId) ELSE
  LET w1 == Cb(w, "onSessionReady", NoId, sessionId)
      w2 == pushSnippet(w1, "status:Connected", NoId, 0, <<>>)
      w3 == setMode(w2, w2.chat.initialPermissionMode).w
  IN Ui(w3, "onSessionReady", sessionId, 0, <<>>)

--------------------------------------------------------------------------
(* Protocol Session: inbound messages                                      *)

\* a session that takes every response for a success
hasErrorIgnored(payload) == FALSE

hasError(payload) == payload.hasError

\* a session that reads no authentication methods from any result
readAuthMethodsNone(result) == <<>>

\* the ids of the methods readAuthMethods returns, in order; entries without
\* a usable id are dropped
readAuthMethods(result) ==
  IF ~result.isObj THEN <<>>
  ELSE SelectSeq(result.authMethods, LAMBDA m : m.id # "")

PendingWithId(w, identifier) == { p \in w.proto.pendingPrompts : p.requestId = identifier }

\* a session that keeps an answered prompt in pendingPrompts
pendingPromptsKept(w, prompt) == w

\* this.pendingPrompts.delete(identifier)
pendingPromptsDelete(w, prompt) == [w EXCEPT !.proto.pendingPrompts = @ \ {prompt}]

handleResponseMessage(w, identifier, payload) ==
  IF identifier = w.proto.initializeRequestId
  THEN LET w1 == onResponseReceived(w, "initialize", identifier)
       IN IF hasError(payload) THEN [w |-> onInitializeError(w1, "rpc"), r |-> TRUE]
          ELSE LET w2 == [w1 EXCEPT !.proto.initializationComplete = TRUE]
                   authMethods == readAuthMethods(payload.result)
                   authMethodIds == { authMethods[i].id : i \in DOMAIN authMethods }
               IN IF "gemini-api-key" \in authMethodIds
                  THEN [w |-> dispatchAuthenticate(w2, "gemini-api-key"), r |-> TRUE]
                  ELSE IF "opencode-login" \in authMethodIds
                  THEN [w |-> onAuthenticationRequired(w2,
                                 SelectSeq(authMethods, LAMBDA m : m.id = "opencode-login")[1]),
                        r |-> TRUE]
                  ELSE [w |-> dispatchSessionNew(w2), r |-> TRUE]
  ELSE IF identifier = w.proto.authenticateRequestId
  THEN LET w1 == onResponseReceived(w, "authenticate", identifier)
       IN IF hasError(payload) THEN [w |-> onSessionError(w1, "rpc"), r |-> TRUE]
          ELSE [w |-> dispatchSessionNew(w1), r |-> TRUE]
  ELSE IF identifier = w.proto.sessionRequestId
  THEN LET w1 == onResponseReceived(w, "session/new", identifier)
           sessionIdentifier == IF payload.result.isObj THEN payload.result.sessionId ELSE ""
       IN IF hasError(payload) THEN [w |-> onSessionError(w1, "rpc"), r |-> TRUE]
          ELSE IF sessionIdentifier = ""
          THEN [w |-> onSessionError(w1, "missing sessionId"), r |-> TRUE]
          ELSE LET w2 == [w1 EXCEPT !.proto.sessionId = sessionIdentifier]
               IN [w |-> flushQueuedPrompts(onSessionReady(w2, sessionIdentifier)), r |-> TRUE]
  ELSE IF PendingWithId(w, identifier) = {} THEN [w |-> w, r |-> FALSE]
  ELSE LET prompt == CHOOSE p \in PendingWithId(w, identifier) : TRUE
           w1 == onResponseReceived(w, "session/prompt", identifier)
           w2 == pendingPromptsDelete(w1, prompt)
           \* readObject(payload.result) ?? {}: an absent result reads as the empty object
           result == IF payload.result.isObj THEN payload.result
                     ELSE [payload.result EXCEPT !.stopReason = "", !.content = <<>>,
                                                 !.message = <<>>]
       IN IF hasError(payload)
          THEN [w |-> onPromptError(w2, identifier, "rpc", prompt.metadata), r |-> TRUE]
          ELSE [w |-> onPromptResult(w2, identifier, result, prompt.metadata), r |-> TRUE]

isValidPermissionKind(kind) == kind \in {"allow_once", "allow_always", "reject_once"}

\* a reader that keeps every entry that is an object
readPermissionOptionsUnfiltered(value) ==
  IF ~value.isArray \/ Len(value.items) = 0 THEN <<>>
  ELSE SelectSeq(value.items, LAMBDA rec : rec.isObj)

\* <<>> stands for null
readPermissionOptions(value) ==
  IF ~value.isArray \/ Len(value.items) = 0 THEN <<>>
  ELSE SelectSeq(value.items,
                 LAMBDA rec : /\ rec.isObj
                              /\ rec.kind # "" /\ rec.name # "" /\ rec.optionId # ""
                              /\ isValidPermissionKind(rec.kind))

\* TRUE iff readPermissionToolCall returns a tool call
readPermissionToolCall(value) ==
  value.isObj /\ value.toolCallId # "" /\ value.title # ""

\* a session that hands a permission request to onPermissionRequest before it
\* has looked at the request's parameters
handleAgentRequestUnchecked(w, requestId, method, payload) ==
  IF method = "session/request_permission"
  THEN [w |-> onPermissionRequest(w, requestId, readPermissionOptions(payload.params.options)),
        r |-> /\ payload.params.isObj
              /\ payload.params.sessionId # ""
              /\ readPermissionOptions(payload.params.options) # <<>>
              /\ readPermissionToolCall(payload.params.toolCall)]
  ELSE [w |-> w, r |-> FALSE]

handleAgentRequest(w, requestId, method, payload) ==
  IF method = "session/request_permission"
  THEN IF ~payload.params.isObj THEN [w |-> w, r |-> FALSE]
       ELSE LET sessionId == payload.params.sessionId
                options == readPermissionOptions(payload.params.options)
            IN IF sessionId = "" \/ options = <<>> \/ ~readPermissionToolCall(payload.params.toolCall)
               THEN [w |-> w, r |-> FALSE]
               ELSE [w |-> onPermissionRequest(w, requestId, options), r |-> TRUE]
  ELSE [w |-> w, r |-> FALSE]

\* a session that takes a string id for a number
readIdAsNumber(payload) ==
  IF payload.idKind \in {"string", "number"} THEN "number" ELSE "null"

\* readId: the kind of identifier read, "null" when the id is unusable (absent,
\* an empty string, a number that is not finite, or any other value)
readId(payload) ==
  IF payload.idKind = "string" /\ payload.sid # NoId THEN "string"
  ELSE IF payload.idKind = "number" THEN "number"
  ELSE "null"

\* readMethod: "" stands for null
readMethod(payload) == payload.method

handleAgentMessage(w, payload) ==
  IF ~payload.isRecord THEN [w |-> w, r |-> FALSE]
  ELSE LET identifier == readId(payload)
           method == readMethod(payload)
       IN IF identifier = "number" /\ method # ""
          THEN handleAgentRequest(w, payload.nid, method, payload)
          ELSE IF identifier = "string" THEN handleResponseMessage(w, payload.sid, payload)
          ELSE IF method = "" THEN [w |-> w, r |-> FALSE]
          ELSE IF method = "session/update"
          THEN IF ~payload.params.isObj THEN [w |-> w, r |-> FALSE]
               ELSE IF ~payload.params.update.isObj THEN [w |-> w, r |-> FALSE]
               ELSE [w |-> onSessionUpdate(w, payload.params.sessionId, payload.params.update),
                     r |-> TRUE]
          ELSE [w |-> w, r |-> FALSE]

--------------------------------------------------------------------------
(* Chat Session: public operations                                         *)

chatStart(w) ==
  IF w.chat.started THEN w
  ELSE start([w EXCEPT !.chat.started = TRUE])

\* a handleUserMessage that leaves the earlier turns as they are
keepStaleStates(w) == w

\* the loop of handleUserMessage over the turns that are not completed
completeStaleStates(w) ==
  [w EXCEPT !.chat.promptStates = [i \in DOMAIN @ |-> [@[i] EXCEPT !.completed = TRUE]]]

handleUserMessage(w, text) ==
  LET trimmed == Trim(text)
  IN IF Len(trimmed) = 0 THEN w
     ELSE
       LET w1 == clearOrphanAgentMessage([w EXCEPT !.chat.cancelInFlight = FALSE])
           w2 == completeStaleStates(w1)
           userMessageId == <<"user", w2.env.nextId>>
           w3 == pushSnippet(TakeId(w2), "userMessage", userMessageId, 0, trimmed)
           systemMessageId == <<"system", w3.env.nextId>>
           agentMessageId == <<"agent", w3.env.nextId + 1>>
           promptState == [requestId |-> NoId,
                           agentMessageId |-> agentMessageId,
                           systemMessageId |-> systemMessageId,
                           agentContent |-> <<>>,
                           thoughtContent |-> <<>>,
                           completed |-> FALSE,
                           cancelled |-> FALSE,
                           cancelNoticeShown |-> FALSE,
                           noticeCleared |-> FALSE,
                           toolMessages |-> <<>>,
                           textSegments |-> <<>>,
                           sentenceBuffer |-> [raw |-> <<>>, sentencesSent |-> 0],
                           currentSegmentId |-> NoId]
           w4 == [TakeId(TakeId(w3)) EXCEPT !.chat.promptStates = Append(@, promptState)]
           t == Len(w4.chat.promptStates)
           w5 == pushSnippet(w4, "systemNotice", systemMessageId, t, <<>>)
           w6 == onWorkingStateChange(w5, TRUE, t)
           sent == sendPrompt(w6, trimmed, agentMessageId)
           w7 == IF sent.r # NoId
                 THEN [sent.w EXCEPT !.chat.promptStates[t].requestId = sent.r]
                 ELSE sent.w
           w8 == onNewMessage(w7, "user", t, trimmed)
       IN chatStart(w8)

chatSetMode(w, modeId) ==
  setMode([w EXCEPT !.chat.initialPermissionMode = modeId], modeId)

cancelPrompt(w) ==
  LET cancelled == cancelCurrentPrompt(w)
  IN IF cancelled.r
     THEN LET t == getActivePromptState(cancelled.w)
              w1 == [cancelled.w EXCEPT !.chat.cancelInFlight = TRUE]
              w2 == cancelActiveToolCalls(w1)
          IN [w |-> IF t # 0 THEN finalizeCancelledState(Note(w2, "cancelPrompt", t, <<>>), t)
                    ELSE w2,
              r |-> TRUE]
     ELSE [w |-> cancelled.w, r |-> FALSE]

--------------------------------------------------------------------------
(* History kept for the properties: what the steps so far have shown       *)

TurnHist0 == [fed |-> <<>>, spoken |-> <<>>, cancelSnips |-> 0, cleared |-> 0,
              userCancelled |-> FALSE, otherFinal |-> FALSE, persisted |-> <<>>,
              segs |-> <<>>, segOpen |-> FALSE]

\* the history of turn t, whether or not a step has touched it yet
TurnOf(h, t) == IF t \in DOMAIN h.turns THEN h.turns[t] ELSE TurnHist0

WithTurn(h, t, th) ==
  [h EXCEPT !.turns = [i \in 1..Max(Len(@), t) |-> IF i = t THEN th ELSE TurnOf(h, i)]]

ObserveEvent(h, e) ==
  IF e.turn = 0 THEN h
  ELSE LET th == TurnOf(h, e.turn)
       IN CASE e.k = "note" /\ e.name = "chunk" ->
                 WithTurn(h, e.turn,
                          [th EXCEPT !.fed = @ \o e.text,
                                     !.segs = IF th.segOpen
                                              THEN [@ EXCEPT ![Len(@)] = @ \o e.text]
                                              ELSE Append(@, e.text),
                                     !.segOpen = TRUE])
            [] e.k = "snippet" /\ e.name = "toolCall" ->
                 WithTurn(h, e.turn, [th EXCEPT !.segOpen = FALSE])
            [] e.k = "note" /\ e.name = "flushSentenceBuffer" ->
                 WithTurn(h, e.turn, [th EXCEPT !.fed = <<>>, !.spoken = <<>>])
            [] e.k = "note" /\ e.name = "cancelPrompt" ->
                 WithTurn(h, e.turn, [th EXCEPT !.userCancelled = TRUE])
            [] e.k = "ui" /\ e.name = "onSentenceReady" /\ e.arg = "process" ->
                 WithTurn(h, e.turn, [th EXCEPT !.spoken = Append(@, e.text)])
            [] e.k = "ui" /\ e.name = "onWorkingStateChange" /\ e.arg = "false" ->
                 WithTurn(h, e.turn, [th EXCEPT !.cleared = @ + 1])
            [] e.k = "ui" /\ e.name = "onToolCall" ->
                 WithTurn(h, e.turn, [th EXCEPT !.persisted = Append(@, e.arg)])
            [] e.k = "snippet" /\ e.name = "cancelled" ->
                 WithTurn(h, e.turn, [th EXCEPT !.cancelSnips = @ + 1])
            [] OTHER -> h

RECURSIVE Observe(_, _)
Observe(h, out) ==
  IF Len(out) = 0 THEN h ELSE Observe(ObserveEvent(h, Head(out)), Tail(out))

Hist0 == [turns |-> <<>>, answered |-> {}, replays |-> 0, updates |-> 0, perms |-> 0,
          modes |-> 0, cancels |-> 0, surfaced |-> {}, sessionAnswered |-> FALSE,
          inits |-> {}, authOk |-> FALSE, steps |-> 0]

--------------------------------------------------------------------------
(* bridgeSockets: two socket-like endpoints wired to each other            *)

Endpoints == {"local", "remote"}
Other(sock) == IF sock = "local" THEN "remote" ELSE "local"

\* the six listeners bridgeSockets registers
Listeners == { <<sock, type>> : sock \in Endpoints, type \in {"message", "close", "error"} }

\* What a transform given in the options does with a message: it maps "m" to
\* another value, returns null or undefined, returns an array of two values,
\* or throws.  items holds what it returned, as a list.
Transform(data) ==
  CASE data = "null" -> [throws |-> FALSE, nullish |-> TRUE, isArray |-> FALSE, items |-> <<>>]
    [] data = "undefined" ->
         [throws |-> FALSE, nullish |-> TRUE, isArray |-> FALSE, items |-> <<>>]
    [] data = "array" ->
         [throws |-> FALSE, nullish |-> FALSE, isArray |-> TRUE, items |-> <<"a1", "a2">>]
    [] data = "throw" ->
         [throws |-> TRUE, nullish |-> FALSE, isArray |-> FALSE, items |-> <<>>]
    [] OTHER -> [throws |-> FALSE, nullish |-> FALSE, isArray |-> FALSE, items |-> <<"M">>]

\* The bridge before bridgeSockets is called.  closeCalls and sends log what
\* the bridge asked of each endpoint; closeModes and sendFails say how the
\* endpoints answer the calls of the step under way.
Bridge0 ==
  [phase |-> "none", resolved |-> FALSE, localClosed |-> FALSE, remoteClosed |-> FALSE,
   transformLocalToRemote |-> FALSE, transformRemoteToLocal |-> FALSE,
   listeners |-> {}, removed |-> [l \in Listeners |-> 0], resolves |-> 0,
   closeCalls |-> [s \in Endpoints |-> <<>>], sends |-> [s \in Endpoints |-> <<>>],
   closeModes |-> <<>>, sendFails |-> <<>>,
   arrived |-> [s \in Endpoints |-> <<>>], events |-> 0, reentered |-> 0,
   last |-> [type |-> "none", sock |-> "", data |-> "", code |-> 0, reason |-> "",
             heard |-> FALSE]]

\* a cleanup that does not look at resolved
cleanupUnguarded(b) ==
  [b EXCEPT !.resolved = TRUE,
            !.listeners = {},
            !.removed = [l \in Listeners |-> @[l] + 1],
            !.resolves = @ + 1]

\* const cleanup = () => { ... }
cleanup(b) ==
  IF b.resolved THEN b
  ELSE [b EXCEPT !.resolved = TRUE,
                 !.listeners = {},
                 !.removed = [l \in Listeners |-> @[l] + 1],
                 !.resolves = @ + 1]

SetClosed(b, sock) ==
  IF sock = "local" THEN [b EXCEPT !.localClosed = TRUE] ELSE [b EXCEPT !.remoteClosed = TRUE]

IsClosed(b, sock) == IF sock = "local" THEN b.localClosed ELSE b.remoteClosed

RECURSIVE safeClose(_, _, _, _)
RECURSIVE handleClose(_, _, _)

\* safeClose(socket, code, reason): socket.close returns, throws (the throw is
\* caught), or raises the socket's close event before it returns, which runs
\* the close listener if it is still registered.
safeClose(b, sock, code, reason) ==
  LET mode == IF Len(b.closeModes) > 0 THEN Head(b.closeModes) ELSE "returns"
      b1 == [b EXCEPT !.closeModes = IF Len(@) > 0 THEN Tail(@) ELSE @,
                      !.closeCalls[sock] = Append(@, [code |-> code, reason |-> reason])]
  IN IF mode = "event" /\ <<sock, "close">> \in b1.listeners
     THEN handleClose([b1 EXCEPT !.reentered = @ + 1], sock, [code |-> code, reason |-> reason])
     ELSE b1

\* handleLocalClose (sock = "local") and handleRemoteClose (sock = "remote");
\* code 0 and reason "" stand for an event without the field
handleClose(b, sock, event) ==
  LET b1 == SetClosed(b, sock)
      b2 == IF ~IsClosed(b1, Other(sock))
            THEN safeClose(SetClosed(b1, Other(sock)), Other(sock),
                           IF event.code # 0 THEN event.code ELSE 1000,
                           IF event.reason # "" THEN event.reason ELSE "peer_closed")
            ELSE b1
  IN cleanup(b2)

handleLocalClose(b, event) == handleClose(b, "local", event)
handleRemoteClose(b, event) == handleClose(b, "remote", event)

\* handleLocalError (sock = "local") and handleRemoteError (sock = "remote"):
\* the endpoint with the error is closed first
handleError(b, sock) ==
  LET b1 == IF ~IsClosed(b, sock)
            THEN safeClose(SetClosed(b, sock), sock, 1011, "peer_error") ELSE b
      b2 == IF ~IsClosed(b1, Other(sock))
            THEN safeClose(SetClosed(b1, Other(sock)), Other(sock), 1011, "peer_error") ELSE b1
  IN cleanup(b2)

handleLocalError(b) == handleError(b, "local")
handleRemoteError(b) == handleError(b, "remote")

\* a transform failure that closes only the endpoint the message came from
abortBridgeOneSided(b, code, reason) ==
  cleanup(IF ~b.localClosed
          THEN safeClose([b EXCEPT !.localClosed = TRUE], "local", code, reason) ELSE b)

abortBridge(b, code, reason) ==
  LET b1 == IF ~b.localClosed
            THEN safeClose([b EXCEPT !.localClosed = TRUE], "local", code, reason) ELSE b
      b2 == IF ~b1.remoteClosed
            THEN safeClose([b1 EXCEPT !.remoteClosed = TRUE], "remote", code, reason) ELSE b1
  IN cleanup(b2)

\* a transform step that sends an array back to front
applyTransformReversed(data, transform) ==
  IF ~transform THEN [throws |-> FALSE, payloads |-> <<data>>]
  ELSE LET result == Transform(data)
       IN IF result.throws THEN [throws |-> TRUE, payloads |-> <<>>]
          ELSE IF result.nullish THEN [throws |-> FALSE, payloads |-> <<>>]
          ELSE [throws |-> FALSE,
                payloads |-> [i \in DOMAIN result.items |->
                                result.items[Len(result.items) + 1 - i]]]

\* applyTransform(data, transform): the payloads to send; throws when the
\* transform throws
applyTransform(data, transform) ==
  IF ~transform THEN [throws |-> FALSE, payloads |-> <<data>>]
  ELSE LET result == Transform(data)
       IN IF result.throws THEN [throws |-> TRUE, payloads |-> <<>>]
          ELSE IF result.nullish THEN [throws |-> FALSE, payloads |-> <<>>]
          ELSE [throws |-> FALSE, payloads |-> result.items]

\* the onFailure closures of handleLocalMessage and handleRemoteMessage
onFailure(b, target) ==
  cleanup(safeClose(SetClosed(b, target), target, 1011, "bridge_forward_failure"))

RECURSIVE forward(_, _, _)
\* forward(target, payloads, onFailure): target.send throws iff the head of
\* sendFails says so; every call of send is logged with what the bridge held
forward(b, target, payloads) ==
  IF Len(payloads) = 0 THEN b
  ELSE LET throws == Len(b.sendFails) > 0 /\ Head(b.sendFails)
           b1 == [b EXCEPT !.sendFails = IF Len(@) > 0 THEN Tail(@) ELSE @,
                           !.sends[target] =
                              Append(@, [data |-> Head(payloads), ok |-> ~throws,
                                         closed |-> IsClosed(b, target),
                                         resolved |-> b.resolved])]
       IN IF throws THEN onFailure(b1, target)
          ELSE forward(b1, target, Tail(payloads))

\* handleLocalMessage (sock = "local") and handleRemoteMessage (sock = "remote")
handleMessage(b, sock, data) ==
  IF IsClosed(b, Other(sock)) THEN b
  ELSE LET got == applyTransform(data, IF sock = "local" THEN b.transformLocalToRemote
                                       ELSE b.transformRemoteToLocal)
       IN IF got.throws THEN abortBridge(b, 1011, "bridge_transform_failure")
          ELSE IF Len(got.payloads) = 0 THEN b
          ELSE forward(b, Other(sock), got.payloads)

handleLocalMessage(b, data) == handleMessage(b, "local", data)
handleRemoteMessage(b, data) == handleMessage(b, "remote", data)

\* bridgeSockets(local, remote, options): the six listeners are registered
bridgeSockets(b, options) ==
  [b EXCEPT !.phase = "bridged",
            !.transformLocalToRemote = options.transformLocalToRemote,
            !.transformRemoteToLocal = options.transformRemoteToLocal,
            !.listeners = Listeners]

--------------------------------------------------------------------------
(* Initial state: the objects as their constructors leave them             *)

Proto0 == [started |-> FALSE, initializationComplete |-> FALSE, sessionId |-> "",
           initializeRequestId |-> NoId, authenticateRequestId |-> NoId,
           sessionRequestId |-> NoId, queuedPrompts |-> <<>>, pendingPrompts |-> {},
           initialPermissionMode |-> "default"]

Chat0 == [started |-> FALSE, promptStates |-> <<>>, currentToolCallTitle |-> "",
          cancelInFlight |-> FALSE, orphanMessageId |-> NoId, orphanMessageContent |-> <<>>,
          initialPermissionMode |-> "default"]

Env0 == [nextId |-> 1, wire |-> <<>>, out |-> <<>>, fs |-> <<>>]

\* No demo handshake has been created.  completed and promptSent are the
\* variables of the closure; readyThrows says whether options.onSessionReady
\* throws; completedBefore and plain record what the last step began with and
\* whether every response so far was a first, error-free, plain one; asked
\* counts the prompts handed to getSession().sendPrompt.
MaxRequests == 3
AgentIds == {"a1", "a2"}
BASE_PROXY_PORT == 3050

\* The local agent manager with no agent registered.  agents maps an agent id
\* to the port of its record (0: no record), started counts the startProxy
\* calls per agent id, bound holds the ports a proxy listens on, and requests
\* holds where each /agents/start request stands in ensureAgent.
Manager0 ==
  [agents |-> [a \in AgentIds |-> 0], started |-> [a \in AgentIds |-> 0], bound |-> {},
   requests |-> [r \in 1..MaxRequests |->
                   [pc |-> "new", agentId |-> "", port |-> 0, reservedPorts |-> {}]]]

MaxLines == 3

\* The proxy between the core and the agent process with nothing in flight.
\* Lines and frames are numbered in the order they were emitted: emitted and
\* sent count them, posts and sends hold the HTTP POSTs in flight, and
\* received and stdin are the sequences that arrived.
Proxy0 == [emitted |-> 0, posts |-> {}, received |-> <<>>,
           sent |-> 0, sends |-> {}, stdin |-> <<>>]

Demo0 == [active |-> FALSE, completed |-> FALSE, promptSent |-> FALSE, readyThrows |-> FALSE,
          completedBefore |-> FALSE, plain |-> TRUE, asked |-> 0]

\* The last operation: its name and inputs, what it returned, and what the
\* objects held when it began.
Op0 == [name |-> "new", origin |-> 0, id |-> NoId, nid |-> -1, arg |-> "", isError |-> FALSE,
        handled |-> TRUE, before |-> <<>>, queued |-> <<>>, cancelledBefore |-> {},
        startedBefore |-> FALSE, sessionBefore |-> "", readyBefore |-> FALSE, adverts |-> {},
        payload |-> <<>>, protoBefore |-> <<>>, first |-> FALSE]

Host0 == [activeChatSession |-> FALSE, owner |-> 0, chatActive |-> 0, conns |-> <<>>]

Init ==
  /\ proto = Proto0
  /\ chat = Chat0
  /\ env = Env0
  /\ op = Op0
  /\ hist = Hist0
  /\ host = Host0
  /\ bridge = Bridge0
  /\ detector = Detector0
  /\ demo = Demo0
  /\ manager = Manager0
  /\ proxy = Proxy0

--------------------------------------------------------------------------
(* Inputs                                                                  *)

UserTexts == { <<"h","i">>, <<" ">> }
Modes == { "plan" }
ChunkTexts == { <<"O","n","e","."," ","T","w","o">>,
                <<" ","t","h","r","e","e","."," ","F","o","u","r">> }
ToolCallIds == { "tc1" }

\* the failure schedules of a step that calls sendUpstream at most n times
Schedules(n) ==
  IF Cardinality({ i \in DOMAIN env.wire : ~env.wire[i].ok }) < MaxFailures
  THEN {<<>>} \cup { f \in [1..n -> BOOLEAN] : \E i \in 1..n : f[i] }
  ELSE {<<>>}

Result0 == [isObj |-> TRUE, authMethods |-> <<>>, sessionId |-> "", stopReason |-> "",
            content |-> <<>>, message |-> <<>>]

AuthMethod(id) == [id |-> id, name |-> id, description |-> ""]

Results ==
  { [Result0 EXCEPT !.sessionId = "S1", !.stopReason = "end_turn",
                    !.content = << <<"O","k">> >>],
    [Result0 EXCEPT !.sessionId = "S1", !.stopReason = "cancelled"],
    [Result0 EXCEPT !.authMethods = <<AuthMethod("gemini-api-key")>>],
    [Result0 EXCEPT !.authMethods = <<AuthMethod("opencode-login")>>],
    [Result0 EXCEPT !.isObj = FALSE] }

Block0 == [t |-> "null", v |-> <<>>, items |-> <<>>]
TextBlock(text) == [Block0 EXCEPT !.t = "text", !.v = text]

Update0 == [isObj |-> TRUE, sessionUpdate |-> "", content |-> Block0, toolCallId |-> "",
            title |-> "", statusDefined |-> FALSE, status |-> UndefinedV,
            kindDefined |-> FALSE, kind |-> UndefinedV, contentDefined |-> FALSE]

Pending == <<"p","e","n","d","i","n","g">>
Completed == <<"c","o","m","p","l","e","t","e","d">>

Updates ==
  { [Update0 EXCEPT !.sessionUpdate = "agent_message_chunk", !.content = TextBlock(c)]
      : c \in ChunkTexts }
  \cup { [Update0 EXCEPT !.sessionUpdate = "agent_thought_chunk",
                         !.content = TextBlock(<<"H","m">>)] }
  \cup { [Update0 EXCEPT !.sessionUpdate = "tool_call", !.toolCallId = id, !.title = "Read",
                         !.statusDefined = TRUE, !.status = st]
           : id \in ToolCallIds, st \in {Pending, Completed} }
  \cup { [Update0 EXCEPT !.sessionUpdate = "tool_call_update", !.toolCallId = id,
                         !.statusDefined = TRUE, !.status = Completed] : id \in ToolCallIds }

Option(kind) == [isObj |-> TRUE, kind |-> kind, name |-> "Allow", optionId |-> "opt-" \o kind]

Params0 == [isObj |-> FALSE, sessionId |-> "", update |-> [Update0 EXCEPT !.isObj = FALSE],
            options |-> [isArray |-> FALSE, items |-> <<>>],
            toolCall |-> [isObj |-> FALSE, toolCallId |-> "", title |-> ""]]

Payload0 == [isRecord |-> TRUE, idKind |-> "absent", sid |-> NoId, nid |-> -1, method |-> "",
             hasError |-> FALSE, result |-> [Result0 EXCEPT !.isObj = FALSE],
             params |-> Params0]

ResponsePayload(id, isError, result) ==
  [Payload0 EXCEPT !.idKind = "string", !.sid = id, !.hasError = isError, !.result = result]

UpdatePayload(update) ==
  [Payload0 EXCEPT !.method = "session/update",
                   !.params = [Params0 EXCEPT !.isObj = TRUE, !.sessionId = "S1",
                                              !.update = update]]

PermissionPayload(n, options) ==
  [Payload0 EXCEPT !.idKind = "number", !.nid = n, !.method = "session/request_permission",
                   !.params = [Params0 EXCEPT !.isObj = TRUE, !.sessionId = "S1",
                                              !.options = [isArray |-> TRUE, items |-> options],
                                              !.toolCall = [isObj |-> TRUE, toolCallId |-> "tc1",
                                                            title |-> "Read"]]]

OptionLists == { <<Option("allow_once"), Option("bogus"), Option("reject_once")>> }

\* The peer answers the requests that reached it; an id it was never sent
\* cannot come back, except as an id that matches nothing.
UnknownId == <<"unknown", 0>>
RequestMethods == {"initialize", "authenticate", "session/new", "session/prompt",
                   "session/set_mode"}
DeliveredIds ==
  { env.wire[i].id : i \in { j \in DOMAIN env.wire :
                               env.wire[j].ok /\ env.wire[j].name \in RequestMethods } }

\* the turn whose prompt was sent with this request id, 0 if there is none
TurnOfRequest(id) ==
  LET hit == { i \in DOMAIN chat.promptStates : chat.promptStates[i].requestId = id }
  IN IF hit = {} THEN 0 ELSE CHOOSE i \in hit : TRUE

\* the turns whose prompt reached the peer
PromptedTurns ==
  { t \in DOMAIN chat.promptStates :
      \E j \in DOMAIN env.wire : /\ env.wire[j].ok
                                 /\ env.wire[j].name = "session/prompt"
                                 /\ env.wire[j].id = chat.promptStates[t].requestId }

--------------------------------------------------------------------------
(* Steps of the session driven directly, as the tests drive it: the        *)
(* transport is a synchronous function that may throw                      *)

\* the objects as a step finds them, with the step's failure schedule
Begin(fs) == [World EXCEPT !.env.out = <<>>, !.env.fs = fs]

CancelledTurns == { t \in DOMAIN hist.turns : hist.turns[t].userCancelled }

OpOf(name, origin, id, nid, arg, isError, handled) ==
  [name |-> name, origin |-> origin, id |-> id, nid |-> nid, arg |-> arg, isError |-> isError,
   handled |-> handled, before |-> chat.promptStates,
   queued |-> [i \in DOMAIN proto.queuedPrompts |-> proto.queuedPrompts[i].requestId],
   cancelledBefore |-> CancelledTurns, startedBefore |-> proto.started,
   sessionBefore |-> proto.sessionId,
   readyBefore |-> proto.initializationComplete /\ proto.sessionId # "", adverts |-> {},
   payload |-> <<>>, protoBefore |-> <<>>, first |-> FALSE]

\* The step's outcome becomes the next state.  A call that returned early,
\* having changed nothing and called nothing, leaves the state as it was.
Commit(w, o, h) ==
  IF w.proto = proto /\ w.chat = chat /\ w.env.out = <<>>
  THEN UNCHANGED vars
  ELSE /\ proto' = w.proto
       /\ chat' = w.chat
       /\ env' = [w.env EXCEPT !.fs = <<>>]
       /\ op' = o
       /\ hist' = [Observe(h, w.env.out) EXCEPT !.steps = @ + 1]
       /\ UNCHANGED <<host, bridge, detector, demo, manager, proxy>>

CanStep == hist.steps < MaxSteps

\* chat.start()
Start ==
  /\ CanStep
  /\ \E fs \in Schedules(1) :
       Commit(chatStart(Begin(fs)), OpOf("start", 0, NoId, -1, "", FALSE, TRUE), hist)

\* chat.handleUserMessage(text)
UserMessage ==
  /\ CanStep
  /\ Len(chat.promptStates) < MaxTurns
  /\ \E text \in UserTexts, fs \in Schedules(1) :
       Commit(handleUserMessage(Begin(fs), text),
              OpOf("handleUserMessage", 0, NoId, -1, "", FALSE, TRUE), hist)

\* chat.setMode(modeId)
SetMode ==
  /\ CanStep
  /\ hist.modes < MaxModeChanges
  /\ \E modeId \in Modes, fs \in Schedules(1) :
       LET done == chatSetMode(Begin(fs), modeId)
       IN Commit(done.w, OpOf("setMode", 0, NoId, -1, modeId, FALSE, done.r),
                 [hist EXCEPT !.modes = @ + 1])

\* chat.cancelPrompt()
CancelPrompt ==
  /\ CanStep
  /\ hist.cancels < MaxCancels
  /\ \E fs \in Schedules(1) :
       LET done == cancelPrompt(Begin(fs))
       IN Commit(done.w, OpOf("cancelPrompt", getActivePromptState(World), NoId, -1, "",
                              FALSE, done.r),
                 [hist EXCEPT !.cancels = @ + 1])

\* What the peer can send next.  Each message is tagged with what the peer
\* meant by it: the kind, and for a session/update the turn it was working on
\* when it produced the update (0: no turn).  Updates and permission requests
\* belong to a session, so the peer sends them once it has answered session/new.
ResponseBodies ==
  { [isError |-> TRUE, result |-> [Result0 EXCEPT !.isObj = FALSE]] }
  \cup { [isError |-> FALSE, result |-> result] : result \in Results }

InboundResponses ==
  { [kind |-> "response", origin |-> TurnOfRequest(id),
     payload |-> ResponsePayload(id, body.isError, body.result)] :
      id \in { i \in DeliveredIds \cup {UnknownId} :
                 i \in hist.answered => hist.replays < MaxReplays },
      body \in ResponseBodies }

InboundUpdates ==
  IF hist.sessionAnswered /\ hist.updates < MaxUpdates
  THEN { [kind |-> "update", origin |-> origin, payload |-> UpdatePayload(update)] :
           update \in Updates,
           origin \in (IF PromptedTurns = {} THEN {0} ELSE PromptedTurns) }
  ELSE {}

InboundPermissions ==
  IF hist.sessionAnswered /\ hist.perms < MaxPermissions
  THEN { [kind |-> "request_permission", origin |-> 0,
          payload |-> PermissionPayload(hist.perms, options)] : options \in OptionLists }
  ELSE {}

Inbound == InboundResponses \cup InboundUpdates \cup InboundPermissions

\* the number of frames the handling of message m can send
SendsOnMessage(m) ==
  IF m.kind # "response" THEN 0
  ELSE IF m.payload.sid = proto.sessionRequestId THEN 1 + Len(proto.queuedPrompts)
  ELSE 1

\* the ids of the authentication methods a response's result lists
Advertised(payload) ==
  { payload.result.authMethods[i].id : i \in DOMAIN payload.result.authMethods }

\* the bookkeeping of a delivery of m that handleAgentMessage answered with handled
Delivered(h, m, handled) ==
  CASE m.kind = "response" ->
         [(IF handled /\ m.origin # 0
              /\ (m.payload.hasError \/ m.payload.result.stopReason # "cancelled")
           THEN WithTurn(h, m.origin, [TurnOf(h, m.origin) EXCEPT !.otherFinal = TRUE])
           ELSE h)
          EXCEPT !.answered = @ \cup {m.payload.sid},
                   !.replays = IF m.payload.sid \in h.answered THEN @ + 1 ELSE @,
                   !.inits = IF handled /\ m.payload.sid = proto.initializeRequestId
                                /\ ~m.payload.hasError
                             THEN @ \cup {Advertised(m.payload)} ELSE @,
                   !.authOk = @ \/ (/\ handled
                                    /\ m.payload.sid = proto.authenticateRequestId
                                    /\ ~m.payload.hasError),
                   !.sessionAnswered =
                      @ \/ (/\ m.payload.sid = proto.sessionRequestId
                            /\ ~m.payload.hasError
                            /\ m.payload.result.isObj
                            /\ m.payload.result.sessionId # "")]
    [] m.kind = "update" -> [h EXCEPT !.updates = @ + 1]
    [] m.kind = "malformed" -> h
    [] OTHER -> [h EXCEPT !.perms = @ + 1,
                          !.surfaced = IF handled THEN @ \cup {m.payload.nid} ELSE @]

\* chat.handleAgentMessage(message): a JSON-RPC response, a session/update
\* notification or a session/request_permission request from the peer
Receive ==
  /\ CanStep
  /\ \E m \in Inbound :
       \E fs \in Schedules(SendsOnMessage(m)) :
         LET done == handleAgentMessage(Begin(fs), m.payload)
         IN Commit(done.w,
                   [OpOf(m.kind, m.origin, m.payload.sid, m.payload.nid,
                         IF m.kind = "update" THEN m.payload.params.update.sessionUpdate
                         ELSE m.payload.result.stopReason,
                         m.payload.hasError, done.r)
                    EXCEPT !.adverts = Advertised(m.payload)],
                   Delivered(hist, m, done.r))

\* chat.respondToPermissionRequest(requestId, outcome, optionId)
RespondPermission ==
  /\ CanStep
  /\ Cardinality({ i \in DOMAIN env.wire : env.wire[i].name = "response" }) <= MaxReplays
  /\ \E requestId \in hist.surfaced, outcome \in {"selected", "cancelled"},
        fs \in Schedules(1) :
       LET done == respondToPermissionRequest(Begin(fs), requestId, outcome,
                                              IF outcome = "selected" THEN "opt-allow_once"
                                              ELSE "")
       IN Commit(done.w, OpOf("respondToPermissionRequest", 0, NoId, requestId, outcome,
                              FALSE, done.r), hist)

Next ==
  \/ Start
  \/ UserMessage
  \/ SetMode
  \/ CancelPrompt
  \/ Receive
  \/ RespondPermission

Spec == Init /\ [][Next]_vars

--------------------------------------------------------------------------
(* The session under a peer that may send anything                         *)

ValidOptions == <<Option("allow_once"), Option("bogus"), Option("reject_once")>>

\* Messages no well-behaved peer sends: not an object, no usable id and no
\* method, a numeric id without a method, a method nobody knows (with and
\* without a numeric id), a session/update without params or without
\* params.update, a session/request_permission without params, without a usable
\* option, without a tool call or without a session id, and a well-formed
\* session/request_permission whose id is not a finite number.
Malformed ==
  { [kind |-> "malformed", origin |-> 0, payload |-> payload] :
      payload \in
        { [Payload0 EXCEPT !.isRecord = FALSE],
          Payload0,
          [Payload0 EXCEPT !.idKind = "number", !.nid = 0],
          [Payload0 EXCEPT !.method = "session/foo"],
          [Payload0 EXCEPT !.idKind = "number", !.nid = 0, !.method = "session/foo"],
          [Payload0 EXCEPT !.idKind = "number", !.nid = 0, !.method = "session/update",
                           !.params = UpdatePayload(CHOOSE u \in Updates : TRUE).params],
          [Payload0 EXCEPT !.method = "session/update"],
          [Payload0 EXCEPT !.method = "session/update",
                           !.params = [Params0 EXCEPT !.isObj = TRUE, !.sessionId = "S1"]],
          [Payload0 EXCEPT !.idKind = "number", !.nid = 0,
                           !.method = "session/request_permission"],
          PermissionPayload(0, <<>>),
          PermissionPayload(0, <<Option("bogus")>>),
          [PermissionPayload(0, ValidOptions) EXCEPT !.params.toolCall.isObj = FALSE],
          [PermissionPayload(0, ValidOptions) EXCEPT !.params.sessionId = ""],
          [PermissionPayload(0, ValidOptions) EXCEPT !.idKind = "nan"] } }

\* a well-formed session/request_permission that carries a string id: one the
\* session has sent a request with, or one it has never seen
StringIdRequests ==
  { [kind |-> "response", origin |-> TurnOfRequest(id),
     payload |-> [PermissionPayload(0, ValidOptions) EXCEPT !.idKind = "string", !.sid = id,
                                                            !.nid = -1]] :
      id \in { i \in DeliveredIds \cup {UnknownId} :
                 i \in hist.answered => hist.replays < MaxReplays } }

\* a second response to a prompt that has been answered
RepeatedPromptResponses ==
  { [kind |-> "response", origin |-> TurnOfRequest(id),
     payload |-> ResponsePayload(id, body.isError, body.result)] :
      id \in { i \in DeliveredIds \cap hist.answered : TurnOfRequest(i) # 0 },
      body \in ResponseBodies }

\* session/request_permission requests whose options are a mix of usable and
\* unusable entries (an unknown kind, an empty name, an empty optionId, an
\* entry that is not an object), and requests whose tool call lacks its id or
\* its title
MixedOptionLists ==
  { <<Option("allow_always")>>,
    <<Option("bogus"), Option("reject_once"), Option("allow_always")>>,
    <<[Option("allow_once") EXCEPT !.name = ""], Option("reject_once"),
      [Option("allow_once") EXCEPT !.isObj = FALSE], Option("allow_once")>>,
    <<[Option("allow_once") EXCEPT !.optionId = ""]>>,
    <<[Option("allow_once") EXCEPT !.isObj = FALSE], [Option("reject_once") EXCEPT !.name = ""]>> }

PermissionRequests ==
  IF hist.sessionAnswered /\ hist.perms < MaxPermissions
  THEN { [kind |-> "request_permission", origin |-> 0, payload |-> payload] :
           payload \in
             { PermissionPayload(hist.perms, options) : options \in MixedOptionLists }
             \cup { [PermissionPayload(hist.perms, ValidOptions)
                        EXCEPT !.params.options.isArray = FALSE],
                    [PermissionPayload(hist.perms, ValidOptions)
                        EXCEPT !.params.toolCall.toolCallId = ""],
                    [PermissionPayload(hist.perms, ValidOptions)
                        EXCEPT !.params.toolCall.title = ""] } }
  ELSE {}

PeerInbound ==
  Inbound \cup Malformed \cup StringIdRequests \cup RepeatedPromptResponses
    \cup PermissionRequests

\* A delivery that changed nothing and called nothing is recorded with what the
\* session held when it came, and is the last step observed: what can follow it
\* is what can follow the state it came in.
CommitPeer(w, o, h) ==
  IF w.proto = proto /\ w.chat = chat /\ w.env.out = <<>>
  THEN /\ op' = o
       /\ env' = [env EXCEPT !.out = <<>>]
       /\ hist' = [hist EXCEPT !.steps = MaxSteps]
       /\ UNCHANGED <<proto, chat, host, bridge, detector, demo, manager, proxy>>
  ELSE Commit(w, o, h)

\* chat.handleAgentMessage(message) for any message
PeerMessage ==
  /\ CanStep
  /\ \E m \in PeerInbound :
       \E fs \in Schedules(SendsOnMessage(m)) :
         LET done == handleAgentMessage(Begin(fs), m.payload)
         IN CommitPeer(done.w,
                       [OpOf(m.kind, m.origin, m.payload.sid, m.payload.nid,
                             IF m.kind = "update" THEN m.payload.params.update.sessionUpdate
                             ELSE m.payload.result.stopReason,
                             m.payload.hasError, done.r)
                        EXCEPT !.adverts = Advertised(m.payload),
                               !.payload = m.payload,
                               !.protoBefore = proto,
                               !.first = m.payload.sid \notin hist.answered],
                       Delivered(hist, m, done.r))

NextPeer ==
  \/ Start
  \/ UserMessage
  \/ PeerMessage

SpecPeer == Init /\ [][NextPeer]_vars

--------------------------------------------------------------------------
(* The Durable Object: browser connections around one Chat Session.  Its   *)
(* sendUpstream is an async function, so no call of it throws.             *)

Conn0 == [state |-> "open", pendingPermissions |-> <<>>]

\* this.teardownActiveChat()
teardownActiveChat(h) ==
  IF h.chatActive = 0 THEN h
  ELSE [h EXCEPT !.conns[h.chatActive].state = IF @ = "open" THEN "closing" ELSE @,
                 !.chatActive = 0]

\* pendingPermissions.set(requestId, ...) in the map of connection c
SetPending(h, c, requestId) ==
  IF \E i \in DOMAIN h.conns[c].pendingPermissions : h.conns[c].pendingPermissions[i] = requestId
  THEN h
  ELSE [h EXCEPT !.conns[c].pendingPermissions = Append(@, requestId)]

RECURSIVE hostOnPermissionRequest(_, _)
\* The onPermissionRequest callback the Chat Session was constructed with: it
\* records each request of the step in the pendingPermissions map of the
\* connection that constructed the session.
hostOnPermissionRequest(h, out) ==
  IF Len(out) = 0 THEN h
  ELSE LET e == Head(out)
       IN hostOnPermissionRequest(
            IF e.k = "ui" /\ e.name = "onPermissionRequest" /\ h.owner # 0
            THEN SetPending(h, h.owner, e.nid) ELSE h,
            Tail(out))

RECURSIVE CancelEach(_, _)
\* the loop of cancelAllPendingPermissions over the request ids in pending
CancelEach(w, pending) ==
  IF Len(pending) = 0 THEN w
  ELSE CancelEach(respondToPermissionRequest(w, Head(pending), "cancelled", "").w,
                  Tail(pending))

\* cancelAllPendingPermissions() of connection c; returns the world and the host
cancelAllPendingPermissions(w, h, c) ==
  [w |-> CancelEach(w, h.conns[c].pendingPermissions),
   h |-> [h EXCEPT !.conns[c].pendingPermissions = <<>>]]

\* a handler for permission_response that keeps the answered request pending
permissionResponseKept(w, h, c, requestId, optionId) ==
  IF \E i \in DOMAIN h.conns[c].pendingPermissions : h.conns[c].pendingPermissions[i] = requestId
  THEN [w |-> respondToPermissionRequest(w, requestId, "selected", optionId).w, h |-> h]
  ELSE [w |-> w, h |-> h]

\* the permission_response branch of the message listener of connection c
permissionResponse(w, h, c, requestId, optionId) ==
  IF \E i \in DOMAIN h.conns[c].pendingPermissions : h.conns[c].pendingPermissions[i] = requestId
  THEN [w |-> respondToPermissionRequest(w, requestId, "selected", optionId).w,
        h |-> [h EXCEPT !.conns[c].pendingPermissions = SelectSeq(@, LAMBDA r : r # requestId)]]
  ELSE [w |-> w, h |-> h]

\* handleChatWebSocket(request); configured is FALSE when the agent id is
\* missing or the proxy cannot be configured.  An existing Chat Session is
\* reused: only its snippet sink is replaced (updatePushSnippet), the callbacks
\* it was constructed with stay those of the connection that constructed it.
handleChatWebSocket(w, h, configured) ==
  LET h1 == teardownActiveChat(h)
      c == Len(h1.conns) + 1
      h2 == [h1 EXCEPT !.conns = Append(@, Conn0), !.chatActive = c]
  IN IF ~configured THEN [w |-> w, h |-> h1]
     ELSE IF h1.activeChatSession THEN [w |-> w, h |-> h2]
     ELSE [w |-> [w EXCEPT !.proto = Proto0, !.chat = Chat0],
           h |-> [h2 EXCEPT !.activeChatSession = TRUE, !.owner = c]]

\* the close listener of connection c
onClose(w, h, c) ==
  LET done == cancelAllPendingPermissions(w, h, c)
      h1 == [done.h EXCEPT !.conns[c].state = "closed"]
  IN [w |-> done.w, h |-> IF h1.chatActive = c THEN [h1 EXCEPT !.chatActive = 0] ELSE h1]

OpenConns == { c \in DOMAIN host.conns : host.conns[c].state = "open" }

\* The step's outcome becomes the next state.  A handler that returned having
\* changed nothing and called nothing leaves the state as it was.
CommitDO(done, o, h, counted) ==
  IF done.w.proto = proto /\ done.w.chat = chat /\ done.w.env.out = <<>> /\ done.h = host
  THEN UNCHANGED vars
  ELSE /\ proto' = done.w.proto
       /\ chat' = done.w.chat
       /\ env' = done.w.env
       /\ op' = o
       /\ hist' = [Observe(h, done.w.env.out) EXCEPT !.steps = IF counted THEN @ + 1 ELSE @]
       /\ host' = done.h
       /\ UNCHANGED <<bridge, detector, demo, manager, proxy>>

\* a browser opens the chat WebSocket
Connect ==
  /\ Len(host.conns) < MaxConnections
  /\ \E configured \in BOOLEAN :
       CommitDO(handleChatWebSocket(Begin(<<>>), host, configured),
                OpOf("connect", Len(host.conns) + 1, NoId, -1, "", FALSE, configured),
                hist, FALSE)

\* the close event of connection c: the browser went away, or the socket the
\* Durable Object closed itself has finished closing
BrowserClose ==
  \E c \in { i \in DOMAIN host.conns : host.conns[i].state # "closed" } :
    CommitDO(onClose(Begin(<<>>), host, c),
             OpOf("close", c, NoId, -1, IF host.chatActive = c THEN "active" ELSE "stale",
                  FALSE, TRUE),
             hist, FALSE)

\* {event: "chat_init"}
ChatInit ==
  /\ CanStep
  /\ \E c \in OpenConns :
       CommitDO([w |-> chatStart(Begin(<<>>)), h |-> host],
                OpOf("chat_init", c, NoId, -1, "", FALSE, TRUE), hist, TRUE)

\* {event: "chat_user_message", text}
ChatUserMessage ==
  /\ CanStep
  /\ Len(chat.promptStates) < MaxTurns
  /\ \E c \in OpenConns, text \in UserTexts :
       CommitDO([w |-> handleUserMessage(Begin(<<>>), text), h |-> host],
                OpOf("chat_user_message", c, NoId, -1, "", FALSE, TRUE), hist, TRUE)

\* {event: "chat_set_mode", modeId}
ChatSetMode ==
  /\ CanStep
  /\ hist.modes < MaxModeChanges
  /\ \E c \in OpenConns, modeId \in Modes \cup {""} :
       CommitDO([w |-> IF modeId # "" THEN chatSetMode(Begin(<<>>), modeId).w
                       ELSE Begin(<<>>),
                 h |-> host],
                OpOf("chat_set_mode", c, NoId, -1, modeId, FALSE, TRUE),
                [hist EXCEPT !.modes = @ + 1], TRUE)

\* {event: "chat_cancel_response"}
ChatCancelResponse ==
  /\ CanStep
  /\ hist.cancels < MaxCancels
  /\ \E c \in OpenConns :
       CommitDO(cancelAllPendingPermissions(cancelPrompt(Begin(<<>>)).w, host, c),
                OpOf("chat_cancel_response", c, NoId, -1,
                     IF host.chatActive = c THEN "active" ELSE "stale", FALSE, TRUE),
                [hist EXCEPT !.cancels = @ + 1], TRUE)

\* {event: "permission_response", requestId, optionId}
PermissionResponse ==
  /\ CanStep
  /\ \E c \in OpenConns, requestId \in 0..(MaxPermissions - 1) :
       CommitDO(permissionResponse(Begin(<<>>), host, c, requestId, "opt-allow_once"),
                OpOf("permission_response", c, NoId, requestId, "", FALSE, TRUE), hist, TRUE)

\* POST /messages/receive with a line from the agent
MessagesReceive ==
  /\ CanStep
  /\ host.activeChatSession
  /\ \E m \in Inbound :
       LET done == handleAgentMessage(Begin(<<>>), m.payload)
       IN CommitDO([w |-> done.w, h |-> hostOnPermissionRequest(host, done.w.env.out)],
                   OpOf(m.kind, m.origin, m.payload.sid, m.payload.nid,
                        IF m.kind = "update" THEN m.payload.params.update.sessionUpdate
                        ELSE m.payload.result.stopReason,
                        m.payload.hasError, done.r),
                   Delivered(hist, m, done.r), TRUE)

NextDO ==
  \/ Connect
  \/ BrowserClose
  \/ ChatInit
  \/ ChatUserMessage
  \/ ChatSetMode
  \/ ChatCancelResponse
  \/ PermissionResponse
  \/ MessagesReceive

SpecDO == Init /\ [][NextDO]_vars

--------------------------------------------------------------------------
(* The bridge under the events of its two endpoints                        *)

MaxBridgeEvents == 3

Data == {"m", "null", "undefined", "array", "throw"}

\* a close event with its code and reason; 0 and "" stand for an absent field
CloseEvents == { [code |-> 1000, reason |-> "done"], [code |-> 4001, reason |-> "gone"],
                 [code |-> 0, reason |-> ""] }

\* how the endpoints answer the close and send calls of one step
CloseSchedules == [1..2 -> {"returns", "throws", "event"}]
SendSchedules == { <<>>, <<TRUE>>, <<FALSE, TRUE>> }

CanBridge == bridge.phase = "bridged" /\ (bridge.resolved \/ bridge.events < MaxBridgeEvents)

\* The bridge as an event of this step finds it.  An event whose listener has
\* been removed reaches nobody: only its type and endpoint are noted.
BeginEvent(type, sock, data, event, modes, fails) ==
  IF <<sock, type>> \in bridge.listeners
  THEN [bridge EXCEPT !.closeModes = modes, !.sendFails = fails, !.events = @ + 1,
                      !.arrived[sock] = IF type = "message" THEN Append(@, data) ELSE @,
                      !.last = [type |-> type, sock |-> sock, data |-> data,
                                code |-> event.code, reason |-> event.reason, heard |-> TRUE]]
  ELSE [bridge EXCEPT !.last = [type |-> type, sock |-> sock, data |-> "", code |-> 0,
                                reason |-> "", heard |-> FALSE]]

\* the listener has returned
CommitBridge(b) ==
  /\ bridge' = [b EXCEPT !.closeModes = <<>>, !.sendFails = <<>>]
  /\ UNCHANGED <<proto, chat, env, op, hist, host, detector, demo, manager, proxy>>

NoEvent == [code |-> 0, reason |-> ""]

\* what an event on sock can carry and meet: nothing when nobody listens
Listening(sock, type) == <<sock, type>> \in bridge.listeners
DataOn(sock) == IF Listening(sock, "message") THEN Data ELSE {""}
CloseEventsOn(sock) == IF Listening(sock, "close") THEN CloseEvents ELSE {NoEvent}
ClosesOn(sock, type) == IF Listening(sock, type) THEN CloseSchedules ELSE {<<>>}
SendsOn(sock) == IF Listening(sock, "message") THEN SendSchedules ELSE {<<>>}

\* bridgeSockets(local, remote, options)
BridgeSockets ==
  /\ bridge.phase = "none"
  /\ \E options \in [transformLocalToRemote : BOOLEAN, transformRemoteToLocal : BOOLEAN] :
       CommitBridge(bridgeSockets(bridge, options))

\* a message event on local
LocalMessage ==
  /\ CanBridge
  /\ \E data \in DataOn("local"), modes \in ClosesOn("local", "message"),
        fails \in SendsOn("local") :
       LET b == BeginEvent("message", "local", data, NoEvent, modes, fails)
       IN CommitBridge(IF b.last.heard THEN handleLocalMessage(b, data) ELSE b)

\* a message event on remote
RemoteMessage ==
  /\ CanBridge
  /\ \E data \in DataOn("remote"), modes \in ClosesOn("remote", "message"),
        fails \in SendsOn("remote") :
       LET b == BeginEvent("message", "remote", data, NoEvent, modes, fails)
       IN CommitBridge(IF b.last.heard THEN handleRemoteMessage(b, data) ELSE b)

\* a close event on local
LocalClose ==
  /\ CanBridge
  /\ \E event \in CloseEventsOn("local"), modes \in ClosesOn("local", "close") :
       LET b == BeginEvent("close", "local", "", event, modes, <<>>)
       IN CommitBridge(IF b.last.heard THEN handleLocalClose(b, event) ELSE b)

\* a close event on remote
RemoteClose ==
  /\ CanBridge
  /\ \E event \in CloseEventsOn("remote"), modes \in ClosesOn("remote", "close") :
       LET b == BeginEvent("close", "remote", "", event, modes, <<>>)
       IN CommitBridge(IF b.last.heard THEN handleRemoteClose(b, event) ELSE b)

\* an error event on local
LocalError ==
  /\ CanBridge
  /\ \E modes \in ClosesOn("local", "error") :
       LET b == BeginEvent("error", "local", "", NoEvent, modes, <<>>)
       IN CommitBridge(IF b.last.heard THEN handleLocalError(b) ELSE b)

\* an error event on remote
RemoteError ==
  /\ CanBridge
  /\ \E modes \in ClosesOn("remote", "error") :
       LET b == BeginEvent("error", "remote", "", NoEvent, modes, <<>>)
       IN CommitBridge(IF b.last.heard THEN handleRemoteError(b) ELSE b)

NextBridge ==
  \/ BridgeSockets
  \/ LocalMessage
  \/ RemoteMessage
  \/ LocalClose
  \/ RemoteClose
  \/ LocalError
  \/ RemoteError

SpecBridge == Init /\ [][NextBridge]_vars

--------------------------------------------------------------------------
(* The sentence detector on its own: texts put together from a few pieces  *)

MaxPieces == 5

\* a fence marker, a sentence with its boundary, a word that opens the next
\* sentence, a lone backquote and a letter of code
Pieces == { Fence, <<"H", "i", ".", " ">>, <<"Y", "o">>, <<Backquote>>, <<"x">> }

RECURSIVE Joined(_)
Joined(ps) == IF ps = <<>> THEN <<>> ELSE Head(ps) \o Joined(Tail(ps))

Texts == { Joined(ps) : ps \in UNION { [1..n -> Pieces] : n \in 0..MaxPieces } }

InitDetector ==
  /\ proto = Proto0
  /\ chat = Chat0
  /\ env = Env0
  /\ op = Op0
  /\ hist = Hist0
  /\ host = Host0
  /\ bridge = Bridge0
  /\ detector \in { [Detector0 EXCEPT !.text = t] : t \in Texts }
  /\ demo = Demo0
  /\ manager = Manager0
  /\ proxy = Proxy0

ExtractSentences ==
  /\ ~detector.applied
  /\ LET got == extractSentences(detector.text)
     IN detector' = [detector EXCEPT !.applied = TRUE,
                                     !.sentences = got.sentences,
                                     !.remainder = got.remainder]
  /\ UNCHANGED <<proto, chat, env, op, hist, host, bridge, demo, manager, proxy>>

NextDetector == ExtractSentences

SpecDetector == InitDetector /\ [][NextDetector]_vars

--------------------------------------------------------------------------
(* The demo handshake: a Protocol Session driven by createDemoHandshake    *)

MaxDemoPrompts == 2

\* typeof payload.id is "string" or "number"; the messages drawn carry
\* jsonrpc "2.0"
isJsonRpcMessage(payload) ==
  payload.isRecord /\ payload.idKind \in {"string", "number", "nan"}

\* handshake.start()
demoStart(w) == IF w.demo.completed THEN w ELSE start(w)

\* handshake.handleAgentMessage(message)
demoHandleAgentMessage(w, message) ==
  IF ~isJsonRpcMessage(message) THEN w ELSE handleAgentMessage(w, message).w

\* a response that is the first to its request, carries a result and no
\* error, advertises no authentication method and names a session
PlainResponse(m) ==
  /\ m.kind = "response"
  /\ m.payload.sid \notin hist.answered
  /\ ~m.payload.hasError
  /\ m.payload.result.isObj
  /\ m.payload.result.authMethods = <<>>
  /\ m.payload.result.sessionId # ""

\* what the peer of the demo can send: responses, and a notification
DemoInbound ==
  InboundResponses
    \cup { [kind |-> "update", origin |-> 0,
            payload |-> UpdatePayload(CHOOSE u \in Updates : TRUE)] }

\* A call that changed nothing is recorded as the last step observed.
CommitDemo(w, o, h, plain) ==
  IF w.proto = proto /\ w.demo = demo /\ w.env.out = <<>>
  THEN /\ op' = o
       /\ env' = [env EXCEPT !.out = <<>>]
       /\ hist' = [hist EXCEPT !.steps = MaxSteps]
       /\ demo' = [demo EXCEPT !.completedBefore = demo.completed]
       /\ UNCHANGED <<proto, chat, host, bridge, detector, manager, proxy>>
  ELSE /\ proto' = w.proto
       /\ env' = [w.env EXCEPT !.fs = <<>>]
       /\ demo' = [w.demo EXCEPT !.completedBefore = demo.completed,
                                 !.plain = demo.plain /\ plain]
       /\ op' = o
       /\ hist' = [Observe(h, w.env.out) EXCEPT !.steps = @ + 1]
       /\ UNCHANGED <<chat, host, bridge, detector, manager, proxy>>

\* createDemoHandshake(options)
CreateDemoHandshake ==
  /\ ~demo.active
  /\ \E throws \in BOOLEAN : demo' = [Demo0 EXCEPT !.active = TRUE, !.readyThrows = throws]
  /\ proto' = [Proto0 EXCEPT !.initialPermissionMode = "bypassPermissions"]
  /\ UNCHANGED <<chat, env, op, hist, host, bridge, detector, manager, proxy>>

\* handshake.start()
DemoStart ==
  /\ demo.active
  /\ CanStep
  /\ \E fs \in Schedules(1) :
       CommitDemo(demoStart(Begin(fs)),
                  [OpOf("start", 0, NoId, -1, "", FALSE, TRUE) EXCEPT !.protoBefore = proto],
                  hist, TRUE)

\* handshake.getSession().sendPrompt(text)
DemoSessionPrompt ==
  /\ demo.active
  /\ CanStep
  /\ demo.asked < MaxDemoPrompts
  /\ \E fs \in Schedules(2) :
       LET sent == sendPrompt([Begin(fs) EXCEPT !.demo.asked = @ + 1], <<"x">>, NoId)
       IN CommitDemo(sent.w,
                     [OpOf("sendPrompt", 0, sent.r, -1, "", FALSE, TRUE)
                        EXCEPT !.protoBefore = proto],
                     hist, TRUE)

\* handshake.handleAgentMessage(message)
DemoMessage ==
  /\ demo.active
  /\ CanStep
  /\ \E m \in DemoInbound :
       \E fs \in Schedules(2) :
         CommitDemo(demoHandleAgentMessage(Begin(fs), m.payload),
                    [OpOf(m.kind, 0, m.payload.sid, -1, m.payload.result.stopReason,
                          m.payload.hasError, TRUE)
                       EXCEPT !.protoBefore = proto],
                    Delivered(hist, m, TRUE), PlainResponse(m))

NextDemo ==
  \/ CreateDemoHandshake
  \/ DemoStart
  \/ DemoSessionPrompt
  \/ DemoMessage

SpecDemo == Init /\ [][NextDemo]_vars

--------------------------------------------------------------------------
(* The session with a transport that never throws and a peer that answers  *)
(* every request it has received, once                                     *)

\* chat.handleUserMessage(text)
SubmitUserMessage ==
  /\ Len(chat.promptStates) < MaxTurns
  /\ \E text \in UserTexts :
       Commit(handleUserMessage(Begin(<<>>), text),
              OpOf("handleUserMessage", 0, NoId, -1, "", FALSE, TRUE), hist)

\* the responses to the requests that reached the peer and are not answered
Answers == { m \in InboundResponses : m.payload.sid \in DeliveredIds \ hist.answered }

\* chat.handleAgentMessage(response)
Answer ==
  \E m \in Answers :
    LET done == handleAgentMessage(Begin(<<>>), m.payload)
    IN Commit(done.w,
              OpOf(m.kind, m.origin, m.payload.sid, m.payload.nid, m.payload.result.stopReason,
                   m.payload.hasError, done.r),
              Delivered(hist, m, done.r))

NextAnswered ==
  \/ SubmitUserMessage
  \/ Answer

SpecAnswered == Init /\ [][NextAnswered]_vars /\ WF_vars(Answer)

--------------------------------------------------------------------------
(* The local agent manager: /agents/start requests handled concurrently.   *)
(* A request gives up control at each await of ensureAgent.                *)

\* ensureAgent up to its await: the record that exists is returned, otherwise
\* the ports of the records are reserved and the search starts
AgentsStart(r) ==
  /\ manager.requests[r].pc = "new"
  /\ \E agentId \in AgentIds, preferredPort \in {0, BASE_PROXY_PORT + 1} :
       manager' =
         [manager EXCEPT !.requests[r] =
            IF manager.agents[agentId] # 0
            THEN [pc |-> "done", agentId |-> agentId, port |-> manager.agents[agentId],
                  reservedPorts |-> {}]
            ELSE [pc |-> "probing", agentId |-> agentId,
                  port |-> IF preferredPort > 0 THEN preferredPort ELSE BASE_PROXY_PORT,
                  reservedPorts |-> { manager.agents[a] : a \in AgentIds } \ {0}]]
  /\ UNCHANGED <<proto, chat, env, op, hist, host, bridge, detector, demo, proxy>>

\* one turn of the loop of findAvailablePort: a reserved port is skipped, a
\* port no proxy listens on is returned, any other port is passed over
ProbePort(r) ==
  /\ manager.requests[r].pc = "probing"
  /\ LET port == manager.requests[r].port
     IN manager' =
          [manager EXCEPT !.requests[r] =
             IF port \notin manager.requests[r].reservedPorts /\ port \notin manager.bound
             THEN [@ EXCEPT !.pc = "found"]
             ELSE [@ EXCEPT !.port = port + 1]]
  /\ UNCHANGED <<proto, chat, env, op, hist, host, bridge, detector, demo, proxy>>

\* ensureAgent after its await: startProxy and agents.set
RegisterAgent(r) ==
  /\ manager.requests[r].pc = "found"
  /\ LET agentId == manager.requests[r].agentId
         port == manager.requests[r].port
     IN manager' = [manager EXCEPT !.started[agentId] = @ + 1,
                                   !.bound = @ \cup {port},
                                   !.agents[agentId] = port,
                                   !.requests[r].pc = "done"]
  /\ UNCHANGED <<proto, chat, env, op, hist, host, bridge, detector, demo, proxy>>

NextManager ==
  \E r \in 1..MaxRequests :
    \/ AgentsStart(r)
    \/ ProbePort(r)
    \/ RegisterAgent(r)

SpecManager == Init /\ [][NextManager]_vars

--------------------------------------------------------------------------
(* The proxy: every stdout line and every frame is its own HTTP POST, none *)
(* awaited by its sender; the POSTs in flight are handled in any order.    *)

\* the stdout data handler: a complete line is posted to the callback URL
AgentStdout ==
  /\ proxy.emitted < MaxLines
  /\ proxy' = [proxy EXCEPT !.emitted = @ + 1, !.posts = @ \cup {proxy.emitted + 1}]
  /\ UNCHANGED <<proto, chat, env, op, hist, host, bridge, detector, demo, manager>>

\* the messages/receive handler of the core: the line of one POST in flight
\* is handed to handleAgentMessage
ReceiveLine ==
  /\ \E line \in proxy.posts :
       proxy' = [proxy EXCEPT !.posts = @ \ {line}, !.received = Append(@, line)]
  /\ UNCHANGED <<proto, chat, env, op, hist, host, bridge, detector, demo, manager>>

\* sendUpstream: a frame is posted to /send
SendUpstream ==
  /\ proxy.sent < MaxLines
  /\ proxy' = [proxy EXCEPT !.sent = @ + 1, !.sends = @ \cup {proxy.sent + 1}]
  /\ UNCHANGED <<proto, chat, env, op, hist, host, bridge, detector, demo, manager>>

\* the POST /send handler: the body of one POST in flight is written to the
\* stdin of the agent
ProxySend ==
  /\ \E frame \in proxy.sends :
       proxy' = [proxy EXCEPT !.sends = @ \ {frame}, !.stdin = Append(@, frame)]
  /\ UNCHANGED <<proto, chat, env, op, hist, host, bridge, detector, demo, manager>>

NextProxy ==
  \/ AgentStdout
  \/ ReceiveLine
  \/ SendUpstream
  \/ ProxySend

SpecProxy == Init /\ [][NextProxy]_vars

--------------------------------------------------------------------------
(* Properties                                                              *)

\* the events of the last step that handed a frame named method to the transport
SentInStep(method) ==
  SelectSeq(env.out, LAMBDA e : e.k = "send" /\ e.name = method)

\* how often the last step invoked the protocol callback name with argument arg
CallsInStep(name, arg) ==
  Len(SelectSeq(env.out, LAMBDA e : e.k = "cb" /\ e.name = name /\ e.arg = arg))

\* C1: the handshake requests leave in the order initialize, session/new,
\* session/prompt: initialize is sent only by the first start; authenticate only
\* while an error-free response to initialize is handled; session/new only while
\* an error-free response to initialize or authenticate is handled and after a
\* delivered initialize; session/prompt only once a session/new response with a
\* non-empty sessionId has been handled; and the handling of an error response
\* sends no handshake request.
HandshakeInOrder ==
  /\ \A i \in DOMAIN env.wire :
       /\ env.wire[i].name = "session/new" =>
            \E j \in 1..(i - 1) : env.wire[j].name = "initialize" /\ env.wire[j].ok
       /\ env.wire[i].name = "session/prompt" =>
            /\ hist.sessionAnswered
            /\ \E j \in 1..(i - 1) : env.wire[j].name = "session/new" /\ env.wire[j].ok
  /\ Len(SentInStep("initialize")) > 0 => ~op.startedBefore
  /\ Len(SentInStep("authenticate")) > 0 =>
       op.name = "response" /\ ~op.isError /\ op.id = proto.initializeRequestId
  /\ Len(SentInStep("session/new")) > 0 =>
       /\ op.name = "response" /\ ~op.isError
       /\ op.id \in {proto.initializeRequestId, proto.authenticateRequestId}
  /\ Len(SentInStep("session/prompt")) > 0 => proto.sessionId # ""
  /\ op.name = "response" /\ op.isError =>
       \A m \in {"initialize", "authenticate", "session/new", "session/prompt"} :
         Len(SentInStep(m)) = 0

\* the whole handshake, authentication included, was walked and a prompt sent
HandshakeWalked ==
  /\ \E i \in DOMAIN env.wire : env.wire[i].name = "authenticate" /\ env.wire[i].ok
  /\ \E i \in DOMAIN env.wire : env.wire[i].name = "session/prompt" /\ env.wire[i].ok
  /\ hist.sessionAnswered

\* C2: when the session becomes ready, the prompts queued until then are handed
\* to the transport in the order they were queued, each exactly once, after
\* onSessionReady has been invoked, and the queue is left empty.
QueueFlushedInOrder ==
  /\ CallsInStep("onSessionReady", proto.sessionId) > 0 =>
       LET sent == SentInStep("session/prompt")
           ready == { i \in DOMAIN env.out : env.out[i].name = "onSessionReady" }
           prompts == { i \in DOMAIN env.out :
                          env.out[i].k = "send" /\ env.out[i].name = "session/prompt" }
       IN /\ [i \in DOMAIN sent |-> sent[i].id] = op.queued
          /\ \A i \in ready, j \in prompts : i < j
          /\ proto.queuedPrompts = <<>>
  /\ \A i, j \in DOMAIN env.wire :
       /\ env.wire[i].name = "session/prompt"
       /\ env.wire[j].name = "session/prompt"
       /\ env.wire[i].id = env.wire[j].id
       => i = j

\* the session became ready with two prompts waiting
TwoQueuedPromptsFlushed ==
  /\ CallsInStep("onSessionReady", proto.sessionId) > 0
  /\ Len(op.queued) = 2
  /\ Len(SentInStep("session/prompt")) = 2

\* the sentences extractSentences finds in text, as they are handed over
SentencesOf(text) ==
  LET found == extractSentences(text).sentences
  IN SelectSeq([i \in DOMAIN found |-> Trim(found[i])], LAMBDA x : Len(x) > 0)

\* C3: whatever the split of the agent's text into chunks, the complete
\* sentences of the text received since the buffer was last flushed are exactly
\* the sentences handed to onSentenceReady since then, in order, each once.
SentencesDeliveredOnce ==
  \A t \in DOMAIN hist.turns :
    hist.turns[t].spoken = SentencesOf(hist.turns[t].fed)

\* C4: a turn the user cancelled, and that (beyond repeated cancels and a late
\* result with stopReason "cancelled") got no other final result, has shown
\* exactly one "cancelled" snippet and one onWorkingStateChange(false, null);
\* no turn ever shows the snippet twice.
CancelShownOnce ==
  \A t \in DOMAIN hist.turns :
    /\ hist.turns[t].cancelSnips <= 1
    /\ hist.turns[t].userCancelled /\ ~hist.turns[t].otherFinal =>
         hist.turns[t].cancelSnips = 1 /\ hist.turns[t].cleared = 1

\* the late "cancelled" result of a turn the user had cancelled was handled
LateCancelledResult ==
  /\ op.name = "response" /\ op.handled /\ ~op.isError
  /\ op.arg = "cancelled"
  /\ op.origin \in op.cancelledBefore
  /\ hist.cancels = 2

\* what must not be produced for a cancelled turn
AgentOutput(e) ==
  \/ e.k = "ui" /\ e.name \in {"onSentenceReady", "onToolCall"}
  \/ e.k = "ui" /\ e.name = "onNewMessage" /\ e.arg = "assistant"
  \/ e.k = "snippet" /\ e.name \in {"agentMessage", "agentUpdate", "toolCall", "toolUpdate"}

\* C5: once the user has cancelled a turn, no message handled later produces
\* onNewMessage("assistant"), onSentenceReady, onToolCall, or a text-segment or
\* tool-call snippet for that turn.
NoOutputAfterCancel ==
  op.name \in {"response", "update", "request_permission"} =>
    \A i \in DOMAIN env.out :
      env.out[i].turn \in op.cancelledBefore => ~AgentOutput(env.out[i])

\* C6: a session/update the peer produced for an earlier turn, handled after a
\* newer user message, leaves the PromptState of every newer turn as it was.
StrayUpdateLeavesNewerTurns ==
  op.name = "update" =>
    \A t \in DOMAIN op.before :
      t > op.origin /\ op.origin # 0 => chat.promptStates[t] = op.before[t]

\* how often onToolCall was invoked for toolCallId in turn t
Persisted(t, toolCallId) ==
  Len(SelectSeq(TurnOf(hist, t).persisted, LAMBDA x : x = toolCallId))

\* C9: onToolCall has been invoked exactly once for every tool call whose
\* status is terminal, and never more than once for any tool call.
ToolCallPersistedOnce ==
  \A t \in DOMAIN chat.promptStates :
    \A i \in DOMAIN chat.promptStates[t].toolMessages :
      LET tool == chat.promptStates[t].toolMessages[i]
      IN /\ Persisted(t, tool.key) <= 1
         /\ isTerminalToolStatus(tool.status) => Persisted(t, tool.key) = 1

\* the frames named method that the transport refused in the last step
FailedInStep(method) ==
  Len(SelectSeq(env.out, LAMBDA e : e.k = "send" /\ e.name = method /\ ~e.ok))

\* C10: every send of initialize, authenticate, session/new or session/prompt
\* that the transport refuses is reported by exactly one invocation of
\* onInitializeError, onSessionError, onSessionError or onPromptError.
TransportFailureReportedOnce ==
  /\ FailedInStep("initialize") = CallsInStep("onInitializeError", "transport")
  /\ FailedInStep("authenticate") + FailedInStep("session/new")
       = CallsInStep("onSessionError", "transport")
  /\ FailedInStep("session/prompt") = CallsInStep("onPromptError", "Failed to send prompt")

\* the response frames handed to the transport for permission request r
ResponsesTo(r) ==
  { i \in DOMAIN env.wire : env.wire[i].name = "response" /\ env.wire[i].nid = r }

\* C7: once the user has cancelled the turn from the connected browser, or that
\* browser's socket has closed, every permission request surfaced so far has
\* been answered (by an earlier choice, or with outcome "cancelled"); this
\* includes connections that reuse the existing Chat Session.
SurfacedPermissionsCancelled ==
  op.name \in {"chat_cancel_response", "close"} /\ op.arg = "active" =>
    \A r \in hist.surfaced : ResponsesTo(r) # {}

\* C8: no surfaced permission request is answered with more than one response
\* frame, whatever clicks, cancels and closes follow.
PermissionAnsweredOnce ==
  \A r \in hist.surfaced : Cardinality(ResponsesTo(r)) <= 1

\* the user cancelled the turn after having answered a permission request
CancelAfterPermissionAnswered ==
  /\ op.name = "chat_cancel_response"
  /\ \E r \in hist.surfaced :
       \E i \in ResponsesTo(r) : env.wire[i].arg = "selected"

\* the value the transport throws when it refuses a frame
ThrownError == "transport"

\* the session/prompt frames the transport refused in the last step
RefusedPrompts == SelectSeq(env.out, LAMBDA e : e.k = "send" /\ e.name = "session/prompt" /\ ~e.ok)

\* the positions in the last step's events at which callback name was invoked for request id
CallPositions(name, id) ==
  { i \in DOMAIN env.out : env.out[i].k = "cb" /\ env.out[i].name = name /\ env.out[i].id = id }

\* C11: when sendPrompt is called on a ready session and the transport refuses
\* the session/prompt frame, the prompt is not in pendingPrompts, onPromptSent is
\* not invoked for it, and onPromptError is invoked for it before sendPrompt
\* returns, once, with the value the transport threw.
PromptSendFailureCarriesThrownError ==
  (op.name = "handleUserMessage" /\ op.readyBefore) =>
    \A i \in DOMAIN RefusedPrompts :
      LET id == RefusedPrompts[i].id
      IN /\ PendingWithId(World, id) = {}
         /\ CallPositions("onPromptSent", id) = {}
         /\ Cardinality(CallPositions("onPromptError", id)) = 1
         /\ \A j \in CallPositions("onPromptError", id) : env.out[j].arg = ThrownError

\* the last step handled an error-free response to the request with this id
AnsweredInStep(id) ==
  op.name = "response" /\ op.handled /\ ~op.isError /\ id # NoId /\ op.id = id

\* every error-free initialize response handled so far advertised method
AlwaysAdvertised(method) == hist.inits # {} /\ \A a \in hist.inits : method \in a

\* C13: when the initialize result advertises gemini-api-key, the step that
\* handles it sends authenticate and no session/new; session/new is sent only
\* in a step that handles an error-free authenticate response, and never while
\* no such response has been handled; handling an authenticate error response
\* invokes onSessionError once and sends no session/new.
GeminiAuthenticatesBeforeSession ==
  /\ (AnsweredInStep(proto.initializeRequestId) /\ "gemini-api-key" \in op.adverts) =>
       /\ Len(SentInStep("authenticate")) = 1
       /\ SentInStep("session/new") = <<>>
  /\ AlwaysAdvertised("gemini-api-key") =>
       /\ SentInStep("session/new") # <<>> => AnsweredInStep(proto.authenticateRequestId)
       /\ ~hist.authOk => \A i \in DOMAIN env.wire : env.wire[i].name # "session/new"
  /\ (/\ op.name = "response" /\ op.handled /\ op.isError
      /\ op.id = proto.authenticateRequestId) =>
       /\ CallsInStep("onSessionError", "rpc") = 1
       /\ SentInStep("session/new") = <<>>

\* session/new leaves while an error-free authenticate response is handled
GeminiSessionOpened ==
  /\ AlwaysAdvertised("gemini-api-key")
  /\ AnsweredInStep(proto.authenticateRequestId)
  /\ Len(SentInStep("session/new")) = 1

\* C14: when the initialize result advertises opencode-login and not
\* gemini-api-key, the step that handles it invokes onAuthenticationRequired
\* once and sends nothing; from then on no authenticate, session/new or
\* session/prompt frame is ever sent, sessionId stays null and the queued prompts
\* stay queued.
OpencodeLoginStopsHandshake ==
  /\ (/\ AnsweredInStep(proto.initializeRequestId)
      /\ "opencode-login" \in op.adverts /\ "gemini-api-key" \notin op.adverts) =>
       /\ CallsInStep("onAuthenticationRequired", "opencode-login") = 1
       /\ \A i \in DOMAIN env.out : env.out[i].k # "send"
  /\ (AlwaysAdvertised("opencode-login") /\ \A a \in hist.inits : "gemini-api-key" \notin a) =>
       /\ \A i \in DOMAIN env.wire :
            env.wire[i].name \notin {"authenticate", "session/new", "session/prompt"}
       /\ proto.sessionId = ""
       /\ proto.sessionRequestId = NoId
       /\ proto.pendingPrompts = {}

\* a prompt is queued after the agent asked for an opencode login
PromptQueuedAfterLoginRequired ==
  /\ hist.inits = { {"opencode-login"} }
  /\ op.name = "handleUserMessage"
  /\ CallsInStep("onPromptQueued", "") = 1
  /\ Len(proto.queuedPrompts) >= 1

\* the frames named method handed to the transport so far
FramesSent(method) == { i \in DOMAIN env.wire : env.wire[i].name = method }

\* the frames the last step handed to the transport
SendsInStep == SelectSeq(env.out, LAMBDA e : e.k = "send")

\* C17: however often start() is called, directly or by sendPrompt on a session
\* that is not ready, one initialize request is sent over the life of the
\* object: a started session has sent exactly one, a step that began with the
\* session started sends none, and a direct start() after the first changes
\* nothing at all.
InitializeSentOnce ==
  /\ Cardinality(FramesSent("initialize")) = (IF proto.started THEN 1 ELSE 0)
  /\ op.startedBefore => SentInStep("initialize") = <<>>
  /\ ~(op.name = "start" /\ op.startedBefore)

\* a second prompt is queued, and start() called again, while the handshake runs
PromptQueuedWhileStarted ==
  /\ op.name = "handleUserMessage"
  /\ op.startedBefore
  /\ ~op.readyBefore
  /\ CallsInStep("onPromptQueued", "") = 1
  /\ Cardinality(FramesSent("initialize")) = 1

\* C18: without a session id setMode and cancelCurrentPrompt return false and
\* send nothing; with one, each sends exactly one frame and returns whether the
\* transport took it, false when the send throws; a session/cancel frame never
\* has an id.
ModeAndCancelNeedSession ==
  /\ op.name = "setMode" =>
       IF op.sessionBefore = ""
       THEN ~op.handled /\ SendsInStep = <<>>
       ELSE /\ Len(SendsInStep) = 1
            /\ SendsInStep[1].name = "session/set_mode"
            /\ op.handled = SendsInStep[1].ok
  /\ op.name = "cancelPrompt" =>
       /\ op.sessionBefore # ""
       /\ Len(SendsInStep) = 1
       /\ SendsInStep[1].name = "session/cancel"
       /\ op.handled = SendsInStep[1].ok
  /\ \A i \in FramesSent("session/cancel") : env.wire[i].id = NoId /\ env.wire[i].nid = -1

\* the transport refuses a session/cancel frame and cancelPrompt returns false
CancelRefusedByTransport ==
  /\ op.name = "cancelPrompt"
  /\ ~op.handled
  /\ op.sessionBefore # ""
  /\ Len(SendsInStep) = 1 /\ ~SendsInStep[1].ok

\* the segments of turn t that are still open
OpenSegments(t) ==
  { i \in DOMAIN chat.promptStates[t].textSegments :
      ~chat.promptStates[t].textSegments[i].isClosed }

\* C19: the text segments of a turn are the runs of agent_message_chunk text
\* between the first appearances of tool call ids: chunks with no new tool call
\* between them are joined into one segment and the first chunk after a new
\* tool call opens a new one.  At most one segment of a turn is open; an open
\* segment is the last one; currentSegmentId is null or the open segment's id.
SegmentsSplitAtToolCalls ==
  \A t \in DOMAIN chat.promptStates :
    LET st == chat.promptStates[t]
        segs == st.textSegments
    IN /\ [i \in DOMAIN segs |-> segs[i].content] = TurnOf(hist, t).segs
       /\ Cardinality(OpenSegments(t)) <= 1
       /\ \A i \in OpenSegments(t) : i = Len(segs) /\ st.currentSegmentId = segs[i].id
       /\ st.currentSegmentId # NoId => OpenSegments(t) # {}
       /\ TurnOf(hist, t).segOpen = (OpenSegments(t) # {})

\* text arrives after a tool call that followed earlier text
SegmentOpenedAfterToolCall ==
  \E t \in DOMAIN chat.promptStates :
    /\ Len(chat.promptStates[t].textSegments) = 2
    /\ OpenSegments(t) = {2}
    /\ Len(chat.promptStates[t].toolMessages) = 1
    /\ op.name = "update" /\ op.arg = "agent_message_chunk"

\* the turns in which the last step started a new tool call
ToolCallStartedIn ==
  { env.out[i].turn : i \in { j \in DOMAIN env.out :
                                env.out[j].k = "snippet" /\ env.out[j].name = "toolCall" } }

\* what the last step handed to onSentenceReady for turn t
SpokenInStep(t) ==
  SelectSeq(env.out, LAMBDA e : e.k = "ui" /\ e.name = "onSentenceReady" /\ e.turn = t)

\* C20: when a tool call with a new id starts while the turn's sentence buffer
\* holds text, that text (trimmed) is handed to onSentenceReady exactly once,
\* nothing is handed over when the buffer holds only blanks, and the buffer is
\* left empty, so that no later flush can speak the text again.
ToolCallFlushesBufferOnce ==
  (op.name = "update") =>
    \A t \in ToolCallStartedIn :
      LET remaining == Trim(op.before[t].sentenceBuffer.raw)
      IN /\ SpokenInStep(t) = IF Len(remaining) > 0
                              THEN << Ev("ui", "onSentenceReady", NoId, -1, "flush", t,
                                         remaining, TRUE) >>
                              ELSE <<>>
         /\ chat.promptStates[t].sentenceBuffer = [raw |-> <<>>, sentencesSent |-> 0]

\* a tool call starts while the buffer holds an unfinished sentence
UnfinishedSentenceFlushedAtToolCall ==
  /\ op.name = "update"
  /\ \E t \in ToolCallStartedIn :
       /\ Len(Trim(op.before[t].sentenceBuffer.raw)) > 0
       /\ Len(SpokenInStep(t)) = 1
       /\ SpokenInStep(t)[1].text = Trim(op.before[t].sentenceBuffer.raw)

\* the last step was a delivery of a message to handleAgentMessage
DeliveryRecorded == op.name \in {"response", "update", "request_permission", "malformed"}

\* how often the last step invoked the protocol callback name
Calls(name) == Len(SelectSeq(env.out, LAMBDA e : e.k = "cb" /\ e.name = name))

\* the request ids under which a session/prompt frame reached the peer
DispatchedPrompts ==
  { env.wire[i].id : i \in { j \in FramesSent("session/prompt") : env.wire[j].ok } }

\* C12: the first response that carries the id of a dispatched session/prompt
\* is handled, takes the prompt out of pendingPrompts and invokes exactly one
\* callback: onPromptError when it has an error, onPromptResult otherwise (also
\* when it has no result object); every later response with that id is not
\* handled, invokes nothing and changes nothing.
PromptAnsweredOnce ==
  (/\ DeliveryRecorded
   /\ op.payload.isRecord /\ op.payload.idKind = "string"
   /\ op.payload.sid \in DispatchedPrompts) =>
     IF op.first
     THEN /\ op.handled
          /\ PendingWithId(World, op.payload.sid) = {}
          /\ Calls("onPromptError") = (IF op.payload.hasError THEN 1 ELSE 0)
          /\ Calls("onPromptResult") = (IF op.payload.hasError THEN 0 ELSE 1)
          /\ \A i \in CallPositions("onPromptError", op.payload.sid)
                        \cup CallPositions("onPromptResult", op.payload.sid) :
               env.out[i].id = op.payload.sid
     ELSE /\ ~op.handled
          /\ env.out = <<>>
          /\ proto = op.protoBefore
          /\ chat.promptStates = op.before

\* a prompt that has been answered is answered again
PromptAnsweredAgain ==
  /\ DeliveryRecorded
  /\ op.payload.isRecord /\ op.payload.idKind = "string" /\ op.payload.method = ""
  /\ op.payload.sid \in DispatchedPrompts
  /\ ~op.first
  /\ ~op.handled

\* the request ids the session held a slot or a pending prompt for
Outstanding(p) ==
  ({ p.initializeRequestId, p.authenticateRequestId, p.sessionRequestId } \ {NoId})
    \cup { q.requestId : q \in p.pendingPrompts }

\* C15: a message is treated as a request of the peer exactly when its id is a
\* finite number (0 included) and its method a non-empty string: only then can
\* onPermissionRequest be invoked, and then neither the response table nor the
\* notification branch sees the message.  A message with a non-empty string id
\* goes through the response table only, with or without a method: it is
\* handled exactly when the id is the one of an outstanding request, and invokes
\* neither onPermissionRequest nor onSessionUpdate.
PeerRequestNeedsNumericId ==
  (DeliveryRecorded /\ op.payload.isRecord) =>
    LET p == op.payload
        isRequest == p.idKind = "number" /\ p.method # ""
    IN /\ isRequest =>
            /\ Calls("onResponseReceived") = 0
            /\ Calls("onSessionUpdate") = 0
            /\ Calls("onPermissionRequest") = (IF op.handled THEN 1 ELSE 0)
            /\ op.handled => p.method = "session/request_permission"
       /\ ~isRequest => Calls("onPermissionRequest") = 0
       /\ (p.idKind = "string" /\ p.sid # NoId) =>
            /\ Calls("onSessionUpdate") = 0
            /\ op.handled = (p.sid \in Outstanding(op.protoBefore))
            /\ op.handled => Calls("onResponseReceived") = 1

\* a well-formed session/request_permission with a string id nobody is waiting
\* for is turned away
StringIdRequestTurnedAway ==
  /\ DeliveryRecorded
  /\ op.payload.isRecord
  /\ op.payload.idKind = "string"
  /\ op.payload.method = "session/request_permission"
  /\ op.payload.sid \notin Outstanding(op.protoBefore)
  /\ op.protoBefore.sessionId # ""
  /\ ~op.handled

\* C16: whenever handleAgentMessage returns false it has invoked no callback
\* and sent no frame, and started, initializationComplete, sessionId, the three
\* request id slots, queuedPrompts and pendingPrompts are as they were.
UnhandledMessageChangesNothing ==
  (DeliveryRecorded /\ ~op.handled) =>
    /\ env.out = <<>>
    /\ proto = op.protoBefore
    /\ chat.promptStates = op.before

\* a malformed permission request is turned away while a prompt is pending
MalformedRequestTurnedAway ==
  /\ op.name = "malformed"
  /\ ~op.handled
  /\ op.payload.method = "session/request_permission"
  /\ op.payload.idKind = "number"
  /\ op.protoBefore.pendingPrompts # {}

\* the last step ended turn t: its prompt was answered (with a result or an
\* error), or cancelPrompt found it active
TurnEndedInStep(t) ==
  /\ t # 0
  /\ t \in DOMAIN op.before
  /\ op.origin = t
  /\ op.handled
  /\ op.name \in {"response", "cancelPrompt"}

\* C21: when a turn ends - by a prompt result, a prompt error or a
\* cancellation - the text left in its sentence buffer is handed to
\* onSentenceReady and the buffer is emptied, as it is when a tool call starts.
BufferFlushedAtTurnEnd ==
  \A t \in DOMAIN chat.promptStates :
    TurnEndedInStep(t) =>
      LET remaining == Trim(op.before[t].sentenceBuffer.raw)
      IN /\ Len(chat.promptStates[t].sentenceBuffer.raw) = 0
         /\ Len(remaining) > 0 =>
              \E i \in DOMAIN SpokenInStep(t) : SpokenInStep(t)[i].text = remaining

\* the last step delivered an agent_message_chunk while no turn was incomplete
ChunkWithoutActiveTurn ==
  /\ op.name = "update"
  /\ op.arg = "agent_message_chunk"
  /\ \A t \in DOMAIN op.before : op.before[t].completed

\* C22: an agent_message_chunk that arrives while no turn is incomplete is kept
\* in the orphan message and rendered under the orphan id, and touches no turn.
StrayChunkGoesToOrphan ==
  ChunkWithoutActiveTurn =>
    /\ chat.orphanMessageId # NoId
    /\ Len(chat.orphanMessageContent) > 0
    /\ \E i \in DOMAIN env.out : /\ env.out[i].k = "snippet"
                                  /\ env.out[i].name = "agentUpdate"
                                  /\ env.out[i].id = chat.orphanMessageId
                                  /\ env.out[i].text = chat.orphanMessageContent
    /\ chat.promptStates = op.before

\* the last event reached its listener
Heard(type) == bridge.last.type = type /\ bridge.last.heard

\* the codes with which the bridge has called close on endpoint sock
CloseCodes(sock) == [i \in DOMAIN bridge.closeCalls[sock] |-> bridge.closeCalls[sock][i].code]

\* the last event was a message whose transform threw
TransformThrew ==
  /\ Heard("message")
  /\ bridge.last.data = "throw"
  /\ IF bridge.last.sock = "local" THEN bridge.transformLocalToRemote
     ELSE bridge.transformRemoteToLocal

\* C23: a close event with code c and reason r on one endpoint makes the bridge
\* call close(c, r) on the other endpoint and close on no other; an error event
\* or a throwing transform makes it call close with code 1011 on both; the
\* bridge never calls close twice on an endpoint.
BridgeClosePropagates ==
  /\ \A sock \in Endpoints : Len(bridge.closeCalls[sock]) <= 1
  /\ Heard("close") =>
       /\ bridge.closeCalls[bridge.last.sock] = <<>>
       /\ bridge.closeCalls[Other(bridge.last.sock)] =
            << [code |-> IF bridge.last.code # 0 THEN bridge.last.code ELSE 1000,
                reason |-> IF bridge.last.reason # "" THEN bridge.last.reason
                           ELSE "peer_closed"] >>
  /\ (Heard("error") \/ TransformThrew) =>
       \A sock \in Endpoints : CloseCodes(sock) = <<1011>>

\* remote closes with its own code and reason and local is closed with them
CloseCarriedAcross ==
  /\ Heard("close")
  /\ bridge.last.sock = "remote"
  /\ bridge.last.code = 4001
  /\ bridge.closeCalls["local"] = << [code |-> 4001, reason |-> "gone"] >>

\* C24: whatever events arrive, and whether or not close raises the close
\* event before it returns, the promise is resolved at most once and each of the
\* six listeners is removed at most once; once an endpoint is marked closed, or
\* a close or error event has been heard, both have happened exactly once.
BridgeResolvesOnce ==
  /\ bridge.resolves = (IF bridge.resolved THEN 1 ELSE 0)
  /\ \A l \in Listeners : bridge.removed[l] = bridge.resolves
  /\ bridge.resolved => bridge.listeners = {}
  /\ (bridge.phase = "bridged" /\ ~bridge.resolved) => bridge.listeners = Listeners
  /\ (bridge.localClosed \/ bridge.remoteClosed) => bridge.resolved
  /\ (Heard("close") \/ Heard("error")) => bridge.resolved

\* close raised the close event before it returned, twice in one step
CloseEventsRaisedInsideClose ==
  /\ bridge.reentered >= 2
  /\ bridge.resolves = 1

\* the bridge has called send and send has thrown
SendThrew ==
  \E sock \in Endpoints : \E i \in DOMAIN bridge.sends[sock] : ~bridge.sends[sock][i].ok

\* C25: after a send has thrown the bridge is where an error event leaves it:
\* close has been called on both endpoints and the promise is resolved.
ForwardFailureClosesBoth ==
  SendThrew =>
    /\ bridge.resolved
    /\ \A sock \in Endpoints : Len(bridge.closeCalls[sock]) = 1

\* what is to be sent for message data in a direction with or without a transform
ExpectedPayloads(data, transform) ==
  IF ~transform THEN <<data>>
  ELSE CASE data \in {"null", "undefined", "throw"} -> <<>>
         [] data = "array" -> <<"a1", "a2">>
         [] OTHER -> <<"M">>

RECURSIVE ExpectedSends(_, _)
ExpectedSends(messages, transform) ==
  IF Len(messages) = 0 THEN <<>>
  ELSE ExpectedPayloads(Head(messages), transform) \o ExpectedSends(Tail(messages), transform)

IsPrefix(s, t) == Len(s) <= Len(t) /\ s = SubSeq(t, 1, Len(s))

\* C26: what the bridge sends to an endpoint is, in order, what the messages
\* that arrived on the other endpoint call for: the message itself without a
\* transform, nothing for null or undefined, one send per element of an array;
\* all of it unless a send threw, which is then the last send.  No send goes
\* to an endpoint marked closed or happens after the promise is resolved.
MessagesForwardedInOrder ==
  \A src \in Endpoints :
    LET sends == bridge.sends[Other(src)]
        wanted == ExpectedSends(bridge.arrived[src],
                                IF src = "local" THEN bridge.transformLocalToRemote
                                ELSE bridge.transformRemoteToLocal)
    IN /\ IsPrefix([i \in DOMAIN sends |-> sends[i].data], wanted)
       /\ \A i \in DOMAIN sends : /\ ~sends[i].closed
                                  /\ ~sends[i].resolved
                                  /\ ~sends[i].ok => i = Len(sends)
       /\ (\A i \in DOMAIN sends : sends[i].ok) => Len(sends) = Len(wanted)

\* an array is fanned out after a plain message, and a null result dropped
ArrayFannedOut ==
  /\ bridge.transformLocalToRemote
  /\ bridge.arrived["local"] = <<"m", "null", "array">>
  /\ [i \in DOMAIN bridge.sends["remote"] |-> bridge.sends["remote"][i].data]
       = <<"M", "a1", "a2">>
  /\ \A i \in DOMAIN bridge.sends["remote"] : bridge.sends["remote"][i].ok


RECURSIVE FenceMarkers(_, _)
\* the triple-backquote markers of text from position i on, read left to right
FenceMarkers(text, i) ==
  IF i > Len(text) THEN 0
  ELSE IF StartsWithAt(text, i, Fence) THEN 1 + FenceMarkers(text, i + 3)
  ELSE FenceMarkers(text, i + 1)

\* what the terminators outside the closed code blocks of text give
SentencesOutsideBlocks(text) == ScanTerminators(ReplaceBlocks(text, 1), 1, 0, <<>>).sentences

\* C27: a text with an odd number of fence markers yields no sentence and is
\* handed back whole as the remainder; a text whose fences are all closed
\* yields the sentences its boundaries outside the code blocks mark.
FencesGateSentences ==
  detector.applied =>
    IF FenceMarkers(detector.text, 1) % 2 = 1
    THEN detector.sentences = <<>> /\ detector.remainder = detector.text
    ELSE detector.sentences = SentencesOutsideBlocks(detector.text)

\* C28: at most one turn is not completed and it is the one created last; a
\* user message leaves every earlier turn completed; a turn that was completed
\* before a step is still completed after it.
OnlyNewestTurnIncomplete ==
  /\ \A i \in DOMAIN chat.promptStates :
       ~chat.promptStates[i].completed => i = Len(chat.promptStates)
  /\ op.name = "handleUserMessage" =>
       \A i \in 1..(Len(chat.promptStates) - 1) : chat.promptStates[i].completed
  /\ \A i \in DOMAIN op.before :
       op.before[i].completed =>
         i \in DOMAIN chat.promptStates /\ chat.promptStates[i].completed

\* a user message arrived while the turn before it was still running
StaleTurnCompletedByUserMessage ==
  /\ op.name = "handleUserMessage"
  /\ Len(op.before) = 1
  /\ ~op.before[1].completed
  /\ Len(chat.promptStates) = 2
  /\ chat.promptStates[1].completed
  /\ ~chat.promptStates[2].completed

\* what the end of a turn emits: the working-state-cleared notification, an
\* error snippet, the cancelled snippet, the persisted assistant message
FinalizationEffect(e) ==
  \/ e.k = "ui" /\ e.name = "onWorkingStateChange" /\ e.arg = "false"
  \/ e.k = "ui" /\ e.name = "onNewMessage" /\ e.arg = "assistant"
  \/ e.k = "snippet" /\ e.name \in {"cancelled", "error:Agent error"}

\* the working-state-cleared notifications of the last step for turn t
ClearedInStep(t) ==
  Len(SelectSeq(env.out, LAMBDA e : e.turn = t /\ e.k = "ui"
                                     /\ e.name = "onWorkingStateChange" /\ e.arg = "false"))

\* C29: a turn that the prompt result, the prompt error or the cancellation
\* finalizer had finalized before a step gets no further working-state-cleared
\* notification, error snippet, cancelled snippet or persisted message in it.
TurnFinalizedOnce ==
  \A t \in DOMAIN hist.turns :
    hist.turns[t].cleared > ClearedInStep(t) =>
      \A i \in DOMAIN env.out : env.out[i].turn = t => ~FinalizationEffect(env.out[i])

\* the requests named method that reached the peer and have had no response
Unanswered(method) ==
  { env.wire[i].id : i \in { j \in DOMAIN env.wire : /\ env.wire[j].ok
                                                      /\ env.wire[j].name = method
                                                      /\ env.wire[j].id \notin hist.answered } }

\* C30: at any time at most one initialize, at most one authenticate and at
\* most one session/new request has been sent and not yet answered, whatever
\* the operations and the responses of the peer, repeated ones included.
OneHandshakeRequestOutstanding ==
  \A method \in {"initialize", "authenticate", "session/new"} :
    Cardinality(Unanswered(method)) <= 1

Cancelled == <<"c","a","n","c","e","l","l","e","d">>

\* the update snippets the last step pushed for the tool call with this id
ToolUpdatesInStep(t, id) ==
  Len(SelectSeq(env.out, LAMBDA e : e.k = "snippet" /\ e.name = "toolUpdate"
                                     /\ e.turn = t /\ e.id = id))

\* C31: a cancelPrompt that returned true leaves every tool call of the active
\* turn that was terminal as it was, sets every other one to "cancelled" with
\* one update snippet each, and marks the turn cancelled and completed; one
\* that returned false leaves every turn and tool call as it was.
CancelPromptCancelsOpenToolCalls ==
  op.name = "cancelPrompt" =>
    IF op.handled
    THEN op.origin # 0 =>
           LET was == op.before[op.origin].toolMessages
               now == chat.promptStates[op.origin].toolMessages
           IN /\ Len(now) = Len(was)
              /\ \A i \in DOMAIN was :
                   IF isTerminalToolStatus(was[i].status)
                   THEN now[i] = was[i] /\ ToolUpdatesInStep(op.origin, was[i].id) = 0
                   ELSE /\ now[i] = [was[i] EXCEPT !.status = Cancelled]
                        /\ ToolUpdatesInStep(op.origin, was[i].id) = 1
              /\ chat.promptStates[op.origin].cancelled
              /\ chat.promptStates[op.origin].completed
              /\ \A t \in DOMAIN op.before :
                   t # op.origin => chat.promptStates[t] = op.before[t]
    ELSE chat.promptStates = op.before

\* a turn with a running tool call was cancelled
RunningToolCallCancelled ==
  /\ op.name = "cancelPrompt"
  /\ op.handled
  /\ op.origin # 0
  /\ \E i \in DOMAIN op.before[op.origin].toolMessages :
       /\ ~isTerminalToolStatus(op.before[op.origin].toolMessages[i].status)
       /\ chat.promptStates[op.origin].toolMessages[i].status = Cancelled

\* the session/new response that gave the session its id was handled last
SessionBecameReady ==
  op.name = "response" /\ op.sessionBefore = "" /\ proto.sessionId # ""

\* C32: setMode on a session without an id returns false, sends nothing and
\* remembers the mode; the step that makes the session ready sends one
\* session/set_mode frame with the remembered mode before any session/prompt.
RememberedModeSentWhenReady ==
  /\ (op.name = "setMode" /\ op.sessionBefore = "") =>
       /\ ~op.handled
       /\ SendsInStep = <<>>
       /\ chat.initialPermissionMode = op.arg
  /\ SessionBecameReady =>
       /\ Len(SentInStep("session/set_mode")) = 1
       /\ SendsInStep[1].name = "session/set_mode"
       /\ SendsInStep[1].arg = chat.initialPermissionMode

\* a mode chosen before the session existed is sent ahead of the queued prompt
ModeSentBeforeQueuedPrompt ==
  /\ SessionBecameReady
  /\ chat.initialPermissionMode = "plan"
  /\ Len(SendsInStep) = 2
  /\ SendsInStep[1].name = "session/set_mode"
  /\ SendsInStep[1].arg = "plan"
  /\ SendsInStep[2].name = "session/prompt"

\* an option as the peer must send it
UsableOption(rec) ==
  /\ rec.isObj
  /\ rec.kind \in {"allow_once", "allow_always", "reject_once"}
  /\ rec.name # ""
  /\ rec.optionId # ""

\* the options the callbacks of the last step were handed
OptionsSurfaced ==
  SelectSeq(env.out, LAMBDA e : e.k = "cb" /\ e.name = "onPermissionRequest")

\* C33: a session/request_permission request reaches onPermissionRequest with
\* exactly its usable options in their original order; it is turned away as a
\* whole, without the callback, exactly when no usable option remains, the
\* session id is empty, or the tool call lacks its id or its title.
PermissionRequestKeepsUsableOptions ==
  (/\ DeliveryRecorded
   /\ op.payload.isRecord
   /\ op.payload.idKind = "number"
   /\ op.payload.method = "session/request_permission") =>
    LET params == op.payload.params
        usable == IF params.options.isArray
                  THEN SelectSeq(params.options.items, UsableOption) ELSE <<>>
        refused == \/ ~params.isObj
                   \/ usable = <<>>
                   \/ params.sessionId = ""
                   \/ ~params.toolCall.isObj
                   \/ params.toolCall.toolCallId = ""
                   \/ params.toolCall.title = ""
    IN IF refused
       THEN ~op.handled /\ OptionsSurfaced = <<>>
       ELSE /\ op.handled
            /\ Len(OptionsSurfaced) = 1
            /\ OptionsSurfaced[1].text = usable
            /\ OptionsSurfaced[1].nid = op.payload.nid

\* two usable options were kept, in order, out of four entries
UnusableOptionsDropped ==
  /\ op.name = "request_permission"
  /\ Len(op.payload.params.options.items) = 4
  /\ op.handled
  /\ Len(OptionsSurfaced) = 1
  /\ OptionsSurfaced[1].text = <<Option("reject_once"), Option("allow_once")>>

\* the methods of the frames handed to the transport so far
WireMethods == [i \in DOMAIN env.wire |-> env.wire[i].name]

\* the session/prompt frames that carry the demo prompt
DemoPromptFrames ==
  { i \in DOMAIN env.wire : /\ env.wire[i].name = "session/prompt"
                            /\ env.wire[i].text = DEMO_PROMPT_TEXT }

QueuedIds == { proto.queuedPrompts[i].requestId : i \in DOMAIN proto.queuedPrompts }
PendingIds == { q.requestId : q \in proto.pendingPrompts }

EveryTurnClearsWorkingState ==
  \A t \in 1..MaxTurns :
    (Len(chat.promptStates) >= t) ~> (TurnOf(hist, t).cleared > 0)

\* C37: session/prompt frames are handed to the transport in the order of the
\* sendPrompt calls that made them (request ids are drawn in call order), a
\* call made inside onSessionReady while prompts are queued included.
PromptFramesInCallOrder ==
  \A i, j \in FramesSent("session/prompt") :
    i < j => env.wire[i].id[2] < env.wire[j].id[2]

\* the working-state notifications of the last step, in order
WorkingStateInStep ==
  SelectSeq(env.out, LAMBDA e : e.k = "ui" /\ e.name = "onWorkingStateChange")

\* C38: while a turn is not completed the most recent working-state
\* notification says working: a step that leaves a turn active and notifies
\* the working state ends with isWorking = true.
WorkingWhileTurnActive ==
  (getActivePromptState(World) # 0 /\ WorkingStateInStep # <<>>) =>
    WorkingStateInStep[Len(WorkingStateInStep)].arg = "true"

\* C39: however the /agents/start requests interleave, startProxy is called at
\* most once per agent id and no two registered agents have the same port.
OneProxyPerAgent ==
  /\ \A a \in AgentIds : manager.started[a] <= 1
  /\ \A a, b \in AgentIds :
       (a # b /\ manager.agents[a] # 0 /\ manager.agents[b] # 0) =>
         manager.agents[a] # manager.agents[b]

\* C40: the lines handed to handleAgentMessage are in the order the agent
\* emitted them, and the frames written to the stdin of the agent are in the
\* order the core sent them.
InOrder(q) == \A i, j \in 1..Len(q) : i < j => q[i] < q[j]

LinesAndFramesArriveInOrder == InOrder(proxy.received) /\ InOrder(proxy.stdin)

====
